---- MODULE Spec2Model ----
(***************************************************************************)
(* Verification model of yomo-app as state machines: the client-side image  *)
(* utilities (compressImage, batchCompressImages, getImageInfo,             *)
(* validateImage, resizeImage), the upload functions of the storage         *)
(* provider and the entity modules on top of the platform's tables.         *)
(*                                                                          *)
(* JavaScript numbers are IEEE-754 binary64.  The image utilities depend    *)
(* on that in Math.round(dimension * ratio) and Math.round(dimension /      *)
(* ratio), where an exact half can be lost by the rounding of the           *)
(* quotient, and in quality - 0.1, whose results are not decimal            *)
(* fractions.  They are modelled bit-exactly with integer arithmetic that   *)
(* stays inside 32 bits.                                                    *)
(***************************************************************************)
EXTENDS Integers, Naturals, Sequences, FiniteSets, TLC

(***************************************************************************)
(* Bounds of the model.                                                     *)
(***************************************************************************)
\* source dimensions enumerated exhaustively: 1..MaxDim on both axes
MaxDim == 7
\* maxWidth / maxHeight enumerated exhaustively: 1..MaxBound
MaxBound == 5
\* files handed to one batchCompressImages call: 0..MaxFiles
MaxFiles == 2
\* entity-module calls made in one behaviour
MaxCalls == 3

\* the number of auth-state-change events delivered to one AuthProvider
MaxEvents == 3

(***************************************************************************)
(* Integer helpers.                                                         *)
(***************************************************************************)
RECURSIVE Pow2(_)
Pow2(n) == IF n = 0 THEN 1 ELSE 2 * Pow2(n - 1)

\* (2^k) mod b without leaving 32 bits
RECURSIVE Pow2Mod(_, _)
Pow2Mod(k, b) == IF k = 0 THEN 1 % b ELSE (2 * Pow2Mod(k - 1, b)) % b

\* least t >= from with a * 2^t >= b: a/b lies in [2^-t, 2^(1-t))
RECURSIVE RatioShift(_, _, _)
RatioShift(a, b, from) ==
    IF a * Pow2(from) >= b THEN from ELSE RatioShift(a, b, from + 1)

\* largest E with 2^E <= k, for k >= 1
RECURSIVE Log2Floor(_)
Log2Floor(k) == IF k < 2 THEN 0 ELSE 1 + Log2Floor(k \div 2)

Min(a, b) == IF a <= b THEN a ELSE b

(***************************************************************************)
(* Math.round(n * ratio) with ratio = a / b computed in binary64,           *)
(* 0 < a < b (the ratio of a scale-down).                                   *)
(*                                                                          *)
(* Away from an exact half the float result rounds like the exact product   *)
(* (the distance to the half is at least 1/(2b), far above the float        *)
(* error).  When n*a/b is exactly k + 1/2, the float quotient fl(a/b) is    *)
(* off by rho / (b * 2^(52+t)), with rem = a * 2^(52+t) mod b and           *)
(* rho = -rem when the quotient was rounded down.  The product              *)
(* fl(n * fl(a/b)) falls below k + 1/2, and Math.round returns k, exactly   *)
(* when n * rem / (b * 2^(52+t)) exceeds half the spacing of the doubles    *)
(* just below k + 1/2; otherwise Math.round returns k + 1.                  *)
(***************************************************************************)
MathRound(n, a, b) ==
    LET num == n * a
        k   == num \div b
    IN  IF 2 * (num - k * b) # b
        THEN (2 * num + b) \div (2 * b)
        ELSE LET t    == RatioShift(a, b, 1)
                 rem  == (a * Pow2Mod(52 + t, b)) % b
                 lost == IF k >= 1
                         THEN LET p == Pow2(Log2Floor(k) + t - 1)
                              IN  p < n /\ n * rem > b * p
                         ELSE 8 * n * rem > b * Pow2(t)
             IN  IF rem # 0 /\ 2 * rem < b /\ lost THEN k ELSE k + 1

(***************************************************************************)
(* The same for any positive a and b, and Math.round(n / ratio).  The       *)
(* exponent t of the ratio (a/b in [2^-t, 2^(1-t))) is negative or zero     *)
(* when a >= b.  In the quotient n / fl(a/b) an exact half is lost when     *)
(* fl(a/b) was rounded up, by rho = b - rem.                                *)
(***************************************************************************)
RatioExp(a, b) ==
    IF a >= b THEN 0 - Log2Floor(a \div b) ELSE RatioShift(a, b, 1)

RatioRem(a, b) == ((a % b) * Pow2Mod(52 + RatioExp(a, b), b)) % b

RoundProduct(n, a, b) ==
    IF a < b
    THEN MathRound(n, a, b)
    ELSE LET num == n * a
             k   == num \div b
         IN  IF 2 * (num - k * b) # b
             THEN (2 * num + b) \div (2 * b)
             ELSE LET rem  == RatioRem(a, b)
                      s    == Log2Floor(k) + RatioExp(a, b) - 1
                      lost == IF s >= 0
                              THEN n * rem > b * Pow2(s)
                              ELSE n * rem * Pow2(0 - s) > b
                  IN  IF rem # 0 /\ 2 * rem < b /\ lost THEN k ELSE k + 1

RoundQuotient(n, a, b) ==
    LET num == n * b
        k   == num \div a
    IN  IF 2 * (num - k * a) # a
        THEN (2 * num + a) \div (2 * a)
        ELSE LET t    == RatioExp(a, b)
                 rem  == RatioRem(a, b)
                 rho  == b - rem
                 s    == Log2Floor(k) + t
                 lost == IF k >= 1
                         THEN IF s >= 0
                              THEN (2 * k + 1) * rho > a * Pow2(s)
                              ELSE (2 * k + 1) * rho * Pow2(0 - s) > a
                         ELSE IF t >= 0
                              THEN 4 * rho > a * Pow2(t)
                              ELSE 4 * rho * Pow2(0 - t) > a
             IN  IF rem # 0 /\ 2 * rem > b /\ lost THEN k ELSE k + 1

\* Math.round(m / 2) for an integer m
RoundHalf(m) == (m + 1) \div 2

(***************************************************************************)
(* compressImage, "Calculate new dimensions": the canvas size for a decoded *)
(* image of width x height.  Math.min(maxWidth / width, maxHeight / height) *)
(* is maxWidth / width exactly when maxWidth * height <= maxHeight * width  *)
(* (float division is monotone, so the float minimum is the quotient of     *)
(* the exact minimum).                                                      *)
(***************************************************************************)
\* variants of the calculation with a plausible slip: the larger ratio is
\* taken, the bound test is missing, each axis gets its own ratio
FitDimensionsMaxRatio(width, height, maxWidth, maxHeight, maintainAspectRatio) ==
    IF maintainAspectRatio
    THEN IF width > maxWidth \/ height > maxHeight
         THEN LET byWidth == maxWidth * height >= maxHeight * width
                  a == IF byWidth THEN maxWidth ELSE maxHeight
                  b == IF byWidth THEN width ELSE height
              IN  [width  |-> (2 * width * a + b) \div (2 * b),
                   height |-> (2 * height * a + b) \div (2 * b)]
         ELSE [width |-> width, height |-> height]
    ELSE [width |-> Min(width, maxWidth), height |-> Min(height, maxHeight)]

FitDimensionsAlwaysScale(width, height, maxWidth, maxHeight, maintainAspectRatio) ==
    IF maintainAspectRatio
    THEN LET byWidth == maxWidth * height <= maxHeight * width
             a == IF byWidth THEN maxWidth ELSE maxHeight
             b == IF byWidth THEN width ELSE height
         IN  [width  |-> (2 * width * a + b) \div (2 * b),
              height |-> (2 * height * a + b) \div (2 * b)]
    ELSE [width |-> Min(width, maxWidth), height |-> Min(height, maxHeight)]

FitDimensionsPerAxis(width, height, maxWidth, maxHeight, maintainAspectRatio) ==
    [width |-> Min(width, maxWidth), height |-> Min(height, maxHeight)]

FitDimensions(width, height, maxWidth, maxHeight, maintainAspectRatio) ==
    IF maintainAspectRatio
    THEN IF width > maxWidth \/ height > maxHeight
         THEN LET byWidth == maxWidth * height <= maxHeight * width
                  a == IF byWidth THEN maxWidth ELSE maxHeight
                  b == IF byWidth THEN width ELSE height
              IN  [width  |-> MathRound(width, a, b),
                   height |-> MathRound(height, a, b)]
         ELSE [width |-> width, height |-> height]
    ELSE [width |-> Min(width, maxWidth), height |-> Min(height, maxHeight)]

(***************************************************************************)
(* binary64 values in (0, 1], as used for the encoder quality.  A value is  *)
(* m * 2^-56 with m = hi * 2^28 + lo; every double in [1/16, 1] and the     *)
(* exact difference of any two of them is of this form.                     *)
(***************************************************************************)
Limb == Pow2(28)

F64(hi, lo) == [hi |-> hi, lo |-> lo]

\* the literals of the source, as the doubles the parser produces
F0_1  == F64(26843545, 161061274)
F0_5  == F64(134217728, 0)
F0_75 == F64(201326592, 0)
F0_85 == F64(228170137, 161061272)
F0_8  == F64(214748364, 214748368)

FGt(x, y) == x.hi > y.hi \/ (x.hi = y.hi /\ x.lo > y.lo)

FLeq(x, y) == ~FGt(x, y)

\* x - y for doubles x > y: the exact difference, rounded to the nearest
\* double (ties to even).  The spacing of the doubles is 2^-53 in [1/2, 1),
\* 2^-54 in [1/4, 1/2), 2^-55 in [1/8, 1/4), at most 2^-56 below.
FSubExact(x, y) ==
    LET borrow == x.lo < y.lo
    IN  F64(x.hi - y.hi - (IF borrow THEN 1 ELSE 0),
            IF borrow THEN x.lo + Limb - y.lo ELSE x.lo - y.lo)

FSub(x, y) ==
    LET d    == FSubExact(x, y)
        g    == IF d.hi >= Pow2(27) THEN 8
                ELSE IF d.hi >= Pow2(26) THEN 4
                ELSE IF d.hi >= Pow2(25) THEN 2 ELSE 1
        rem  == d.lo % g
        base == d.lo - rem
        up   == 2 * rem > g \/ (2 * rem = g /\ (base \div g) % 2 = 1)
        rlo  == IF up THEN base + g ELSE base
    IN  IF rlo >= Limb THEN F64(d.hi + 1, rlo - Limb) ELSE F64(d.hi, rlo)

(***************************************************************************)
(* Files, options and results.                                              *)
(*                                                                          *)
(* A mime type is <<major, minor>> ("image/jpeg" is <<"image", "jpeg">>),   *)
(* so that startsWith('image/') is a test of the major part.  A file name   *)
(* is [stem, ext]; ext = "" is a name without '.', and an error message is  *)
(* the sequence of the strings it is concatenated from.                     *)
(***************************************************************************)
NullFile == [present |-> FALSE, type |-> <<"", "">>,
             name |-> [stem |-> "", ext |-> ""], width |-> 0, height |-> 0]

ImageFile(minor, stem, ext, w, h) ==
    [present |-> TRUE, type |-> <<"image", minor>>,
     name |-> [stem |-> stem, ext |-> ext], width |-> w, height |-> h]

TextFile == [present |-> TRUE, type |-> <<"text", "plain">>,
             name |-> [stem |-> "notes", ext |-> "txt"], width |-> 0, height |-> 0]

\* the input files of the model: no file, a non-image and a photo
FileChoices ==
    {NullFile, TextFile, ImageFile("png", "IMG_0001", "png", 4000, 3000)}

\* destructuring defaults of compressImage
DefaultMaxWidth == 1920
DefaultMaxHeight == 1920
DefaultMaxSizeTenthsMB == 15

\* maxSizeMB is kept in tenths of a megabyte (1.5 is 15, 0.1 is 1)
DefaultOptions ==
    [maxWidth |-> DefaultMaxWidth, maxHeight |-> DefaultMaxHeight,
     quality |-> F0_85, maxSizeTenthsMB |-> DefaultMaxSizeTenthsMB,
     mimeType |-> <<"image", "jpeg">>, maintainAspectRatio |-> TRUE]

\* the options uploadProfileImage passes
ProfileOptions ==
    [maxWidth |-> 512, maxHeight |-> 512,
     quality |-> F0_8, maxSizeTenthsMB |-> 1,
     mimeType |-> <<"image", "jpeg">>, maintainAspectRatio |-> TRUE]

\* a call at the quality floor, without aspect ratio, encoding WebP
FloorOptions ==
    [maxWidth |-> 8192, maxHeight |-> 1920,
     quality |-> F0_5, maxSizeTenthsMB |-> DefaultMaxSizeTenthsMB,
     mimeType |-> <<"image", "webp">>, maintainAspectRatio |-> FALSE]

OptionChoices == {DefaultOptions, ProfileOptions, FloorOptions}

\* blob.size > maxSizeMB * 1024 * 1024, for an integer size
OverBudgetOrEqual(size, options) ==
    10 * size >= options.maxSizeTenthsMB * 1024 * 1024

OverBudget(size, options) ==
    10 * size > options.maxSizeTenthsMB * 1024 * 1024

\* the sizes an encode can have in the model: the largest size within the
\* budget and the smallest size over it
BudgetBytes(options) == (options.maxSizeTenthsMB * 1024 * 1024) \div 10

BlobSizes(options) == {BudgetBytes(options), BudgetBytes(options) + 1}

(***************************************************************************)
(* State.                                                                   *)
(*   files, options  the arguments of the batchCompressImages call          *)
(*   calls[i]        the compressImage call of files[i]: the stack of its   *)
(*                   recursion levels (the last one is the deepest), and    *)
(*                   the settlement of the promise it returned              *)
(*   batch           the Promise.all of batchCompressImages and the         *)
(*                   settlement of the batch                                *)
(*   settleOrder     the indices of the calls in the order they settled     *)
(*   fitIn, fitOut   input and successive outputs of the dimension          *)
(*                   calculation on its own                                 *)
(*   validation      the validateImage call                                 *)
(*   info            the getImageInfo call                                  *)
(*   resize          the resizeImage call and its canvas                    *)
(*   upload          the uploadMomentImage or uploadProfileImage call       *)
(*   db              the rows of the tables and the entity-module call      *)
(***************************************************************************)
VARIABLES files, options, calls, batch, settleOrder, fitIn, fitOut,
          validation, info, resize, upload, db, signup, authContext, storage

vars == <<files, options, calls, batch, settleOrder, fitIn, fitOut,
          validation, info, resize, upload, db, signup, authContext, storage>>

\* the authentication and storage-routing state, which the image
\* utilities and the entity modules never touch
extraVars == <<signup, authContext, storage>>

otherVars == <<validation, info, resize, db>>

batchVars == <<files, options, calls, batch, settleOrder>>

fitVars == <<fitIn, fitOut>>

(***************************************************************************)
(* validateImage: the defaults of its options, and the options the two      *)
(* upload functions pass.  maxSize is in bytes, a type is <<major, minor>>. *)
(***************************************************************************)
MB == 1024 * 1024

DefaultValidation ==
    [maxSize |-> 10 * MB,
     allowedTypes |-> {<<"image", "jpeg">>, <<"image", "png">>,
                       <<"image", "webp">>},
     maxWidth |-> 8192, maxHeight |-> 8192]

MomentValidation == [DefaultValidation EXCEPT !.maxSize = 50 * MB]

ProfileValidation ==
    [DefaultValidation EXCEPT !.maxWidth = 4096, !.maxHeight = 4096]

\* a File with its size in bytes
SizedFile(file, size) ==
    [present |-> file.present, type |-> file.type, name |-> file.name,
     width |-> file.width, height |-> file.height, size |-> size]

(***************************************************************************)
(* The calls outside the batch scenario, before they are made.  reads and   *)
(* decodes count the reader.readAsDataURL calls and the img.src             *)
(* assignments of getImageInfo and of resizeImage.                          *)
(***************************************************************************)
ValidationIdle ==
    [state |-> "idle", file |-> NullFile, options |-> DefaultValidation,
     result |-> <<>>, error |-> <<>>]

InfoIdle ==
    [state |-> "idle", file |-> NullFile, value |-> <<>>, error |-> <<>>,
     reads |-> 0, decodes |-> 0]

ResizeIdle ==
    [state |-> "idle", file |-> NullFile, targetWidth |-> 0,
     targetHeight |-> 0, fit |-> "cover", reads |-> 0, decodes |-> 0,
     canvas |-> <<>>, ops |-> <<>>, value |-> <<>>, error |-> <<>>,
     failed |-> ""]

UploadIdle ==
    [state |-> "idle", kind |-> "moment", file |-> NullFile,
     bucket |-> "", path |-> <<>>, requests |-> 0, body |-> <<>>,
     value |-> <<>>, error |-> <<>>]

\* the rows of the tables before any entity-module call: a like of another
\* user on moment-1, two moments, comments, follows, circles and
\* whitelist entries.  Like ids are numbers, nextId is the next one the
\* platform hands out.
InitialTables ==
    [likes |-> {[id |-> 1, user_id |-> "user-2", moment_id |-> "moment-1"]},
     moments |-> {[id |-> "moment-1", is_deleted |-> FALSE, deleted_at |-> 0],
                  [id |-> "moment-2", is_deleted |-> FALSE, deleted_at |-> 0]},
     comments |-> {[id |-> "comment-1"], [id |-> "comment-2"]},
     follows |-> {[follower_id |-> "user-1", following_id |-> "user-2"],
                  [follower_id |-> "user-2", following_id |-> "user-1"]},
     circles |-> {[id |-> "circle-1"], [id |-> "circle-2"]},
     circle_whitelist |-> {[circle_id |-> "circle-1", user_id |-> "user-1"],
                           [circle_id |-> "circle-1", user_id |-> "user-2"]}]

DbIdle ==
    [state |-> "idle", clock |-> 0, nextId |-> 2, tables |-> InitialTables,
     calls |-> <<>>]

\* no call of another scenario has been made
\* signup: one SupabaseAuthProvider.signup call.  credentials is what the
\* caller passed, signUp / update what the platform answered, user the
\* mapped user between the two awaits.
SignupIdle ==
    [state |-> "idle", username |-> <<>>, signUp |-> "", update |-> "",
     user |-> <<>>, value |-> <<>>, error |-> <<>>]

\* authContext: the state of one mounted AuthProvider.  user = <<>> is
\* null; getUser is the initAuth call; events are the users of the
\* auth-state-change events delivered so far, oldest first.
AuthContextIdle ==
    [state |-> "unmounted", user |-> <<>>, loading |-> TRUE,
     getUser |-> "idle", events |-> <<>>]

\* storage: a path written by an upload function, the bucket it was
\* written to, and the bucket a later getSignedUrl or deleteFile used
StorageIdle ==
    [state |-> "idle", upload |-> "", bucket |-> "", path |-> <<>>,
     operation |-> "", routed |-> ""]

OthersIdle ==
    /\ validation.state = "idle"
    /\ info.state = "idle"
    /\ resize.state = "idle"
    /\ upload.state = "idle"
    /\ db.state = "idle"

(***************************************************************************)
(* Promise outcomes.                                                        *)
(***************************************************************************)
Resolved(file) == [ok |-> TRUE, value |-> <<file>>, error |-> <<>>]

\* variant in which every rejection carries one generic message
RejectedGeneric(message) ==
    [ok |-> FALSE, value |-> <<>>, error |-> <<"Failed to process image">>]

Rejected(message) == [ok |-> FALSE, value |-> <<>>, error |-> message]

(***************************************************************************)
(* compressImage: input validation of the promise executor.  <<>> is "no    *)
(* error".                                                                  *)
(***************************************************************************)
InputError(file) ==
    IF ~file.present
    THEN <<"Invalid file: must be a File or Blob object">>
    ELSE IF file.type[1] # "image"
    THEN <<"Invalid file type: ", file.type[1], "/", file.type[2],
           " is not an image">>
    ELSE <<>>

\* a level of the recursion that passed validation and called
\* reader.readAsDataURL; failed records, in the level of the call the
\* caller made, which handler rejected it ("read", "decode", "context",
\* "canvas" for a caught exception, "encode"); the rejection of a
\* recursive attempt never reaches the caller
NewLevel(quality) ==
    [quality |-> quality, pc |-> "reading", width |-> 0, height |-> 0,
     blob |-> 0, failed |-> ""]

FailedAt(stack, level, cause) ==
    IF Len(stack) = 1 THEN [level EXCEPT !.failed = cause] ELSE level

(***************************************************************************)
(* compressImage, "Create File from Blob": fileName.replace(/\.\w+$/,       *)
(* '.jpg') || 'compressed-image.jpg', with the requested mime type.  The    *)
(* fields quality, width and height are not part of a File: they record     *)
(* how the buffer was produced.                                             *)
(***************************************************************************)
ReplaceExtension(name) ==
    IF name.ext # "" THEN [name EXCEPT !.ext = "jpg"] ELSE name

CompressedName(file) ==
    LET replaced == ReplaceExtension(file.name)
    IN  IF replaced.stem = "" /\ replaced.ext = ""
        THEN [stem |-> "compressed-image", ext |-> "jpg"]
        ELSE replaced

CompressedFile(file, opts, level) ==
    [name |-> CompressedName(file), type |-> opts.mimeType,
     size |-> level.blob, quality |-> level.quality,
     width |-> level.width, height |-> level.height]

(***************************************************************************)
(* The toBlob callback of a level resumed after `await compressImage(...)`: *)
(* a resolved recursive attempt is passed on, a rejected one is caught and  *)
(* the level resolves with its own blob.                                    *)
(***************************************************************************)
\* variant without the try/catch around the recursive call
AwaitRecompressedPropagate(level, outcome, file, opts) == outcome

\* variant in which a level always resolves with its own encode
AwaitRecompressedKeepsOwn(level, outcome, file, opts) ==
    Resolved(CompressedFile(file, opts, level))

AwaitRecompressed(level, outcome, file, opts) ==
    IF outcome.ok
    THEN outcome
    ELSE Resolved(CompressedFile(file, opts, level))

\* the outcome of the outermost call once the deepest level settled with
\* `outcome`; awaiting holds the levels suspended in their await
RECURSIVE Unwind(_, _, _, _)
Unwind(awaiting, outcome, file, opts) ==
    IF awaiting = <<>>
    THEN outcome
    ELSE Unwind(SubSeq(awaiting, 1, Len(awaiting) - 1),
                AwaitRecompressed(awaiting[Len(awaiting)], outcome, file, opts),
                file, opts)

(***************************************************************************)
(* Promise.all, wrapped by the try/catch of batchCompressImages: the        *)
(* reaction to the settlement of element i.                                 *)
(***************************************************************************)
BatchPending(n) ==
    [state |-> "pending", values |-> [k \in 1..n |-> <<>>], remaining |-> n,
     results |-> <<>>, error |-> <<>>]

\* variants with a plausible slip: the batch waits for every call before
\* it rejects (Promise.allSettled), the batch keeps the results of the
\* calls that resolved and drops the failures
PromiseAllKeepsWaiting(b, i, outcome) ==
    IF b.state # "pending"
    THEN b
    ELSE LET vals == [b.values EXCEPT ![i] = IF outcome.ok THEN outcome.value ELSE <<>>]
             err  == IF ~outcome.ok /\ b.error = <<>>
                     THEN <<"Batch compression failed: ">> \o outcome.error
                     ELSE b.error
         IN  IF b.remaining = 1
             THEN IF err # <<>>
                  THEN [b EXCEPT !.values = vals, !.remaining = 0,
                                 !.state = "rejected", !.error = err]
                  ELSE [b EXCEPT !.values = vals, !.remaining = 0,
                                 !.state = "resolved",
                                 !.results = [k \in DOMAIN vals |-> vals[k][1]]]
             ELSE [b EXCEPT !.values = vals, !.remaining = b.remaining - 1,
                            !.error = err]

RECURSIVE Flatten(_, _)
Flatten(vals, k) ==
    IF k > Len(vals) THEN <<>> ELSE vals[k] \o Flatten(vals, k + 1)

PromiseAllSkipsFailures(b, i, outcome) ==
    IF b.state # "pending"
    THEN b
    ELSE LET vals == [b.values EXCEPT ![i] = IF outcome.ok THEN outcome.value ELSE <<>>]
         IN  IF b.remaining = 1
             THEN [b EXCEPT !.values = vals, !.remaining = 0,
                            !.state = "resolved",
                            !.results = Flatten(vals, 1)]
             ELSE [b EXCEPT !.values = vals, !.remaining = b.remaining - 1]

PromiseAllReaction(b, i, outcome) ==
    IF b.state # "pending"
    THEN b
    ELSE IF outcome.ok
    THEN LET vals == [b.values EXCEPT ![i] = outcome.value]
         IN  IF b.remaining = 1
             THEN [b EXCEPT !.values = vals, !.remaining = 0,
                            !.state = "resolved",
                            !.results = [k \in DOMAIN vals |-> vals[k][1]]]
             ELSE [b EXCEPT !.values = vals, !.remaining = b.remaining - 1]
    ELSE [b EXCEPT !.state = "rejected",
                   !.error = <<"Batch compression failed: ">> \o outcome.error]

\* the reactions to the calls that were already settled when Promise.all
\* subscribed, in index order
RECURSIVE ReactFrom(_, _, _)
ReactFrom(b, cs, i) ==
    IF i > Len(cs)
    THEN b
    ELSE ReactFrom(IF cs[i].state = "pending"
                   THEN b
                   ELSE PromiseAllReaction(b, i,
                            [ok |-> cs[i].state = "resolved",
                             value |-> cs[i].value, error |-> cs[i].error]),
                   cs, i + 1)

(***************************************************************************)
(* Helpers on the state of one call.                                        *)
(***************************************************************************)
Top(i) == calls[i].stack[Len(calls[i].stack)]

\* variant in which the handlers are not nested: each can run whenever
\* the call is pending
AtStageUnordered(i, pc) ==
    /\ i \in DOMAIN calls
    /\ calls[i].state = "pending"

AtStage(i, pc) ==
    /\ i \in DOMAIN calls
    /\ calls[i].state = "pending"
    /\ Top(i).pc = pc

SetTop(stack, level) == [stack EXCEPT ![Len(stack)] = level]

(***************************************************************************)
(* uploadMomentImage / uploadProfileImage: what each passes to              *)
(* validateImage and compressImage, and the continuation after              *)
(* await compressImage.  Every throw inside the try block is caught and     *)
(* rethrown with the prefix of the function.                                *)
(***************************************************************************)
UploadValidation(kind) ==
    IF kind = "moment" THEN MomentValidation ELSE ProfileValidation

UploadCompression(kind) ==
    IF kind = "moment" THEN DefaultOptions ELSE ProfileOptions

UploadPrefix(kind) ==
    IF kind = "moment"
    THEN "Moment image upload error: "
    ELSE "Profile image upload error: "

UploadReject(u, message) ==
    [u EXCEPT !.state = "rejected",
              !.error = <<UploadPrefix(u.kind)>> \o message]

\* a variant with a plausible slip: a failed compression is swallowed and
\* the original file is uploaded
UploadAfterCompressFallback(u, outcome) ==
    IF u.state # "compressing"
    THEN u
    ELSE [u EXCEPT !.state = "uploading", !.requests = @ + 1,
                   !.body = IF outcome.ok THEN outcome.value ELSE <<u.file>>]

UploadAfterCompress(u, outcome) ==
    IF u.state # "compressing"
    THEN u
    ELSE IF outcome.ok
    THEN [u EXCEPT !.state = "uploading", !.requests = @ + 1,
                   !.body = outcome.value]
    ELSE UploadReject(u, outcome.error)

\* The deepest level of call i settles with `outcome`, `stack` being the
\* stack with that level's last update.  The await continuations of the
\* levels above it, the Promise.all reaction and the continuation of an
\* upload function awaiting the call are microtasks of the same event-loop
\* turn: no event of any other call can come in between.
Settle(i, stack, outcome) ==
    LET final == Unwind(SubSeq(stack, 1, Len(stack) - 1), outcome,
                        files[i], options)
    IN  /\ calls' = [calls EXCEPT ![i] =
                        [stack |-> [k \in DOMAIN stack |->
                                       [stack[k] EXCEPT !.pc = "settled"]],
                         state |-> IF final.ok THEN "resolved" ELSE "rejected",
                         value |-> final.value,
                         error |-> final.error]]
        /\ batch' = PromiseAllReaction(batch, i, final)
        /\ settleOrder' = Append(settleOrder, i)
        /\ upload' = UploadAfterCompress(upload, final)

(***************************************************************************)
(* batchCompressImages(files, options): files.map calls compressImage for   *)
(* every file in order; each promise executor validates its file and        *)
(* starts the FileReader before map goes on to the next file.  Then         *)
(* Promise.all subscribes to the promises.                                  *)
(***************************************************************************)
StartCall(file, opts) ==
    IF InputError(file) # <<>>
    THEN [stack |-> <<>>, state |-> "rejected", value |-> <<>>,
          error |-> InputError(file)]
    ELSE [stack |-> <<NewLevel(opts.quality)>>, state |-> "pending",
          value |-> <<>>, error |-> <<>>]

RECURSIVE SettledIn(_, _)
SettledIn(cs, i) ==
    IF i > Len(cs) THEN <<>>
    ELSE (IF cs[i].state = "pending" THEN <<>> ELSE <<i>>) \o SettledIn(cs, i + 1)

BatchCompressImages(fs, opts) ==
    /\ batch.state = "idle"
    /\ fitIn = <<>>    \* not a behaviour of the dimension calculation alone
    /\ OthersIdle
    /\ LET started == [i \in 1..Len(fs) |-> StartCall(fs[i], opts)]
       IN  /\ files' = fs
           /\ options' = opts
           /\ calls' = started
           /\ batch' = IF Len(fs) = 0
                       THEN [BatchPending(0) EXCEPT !.state = "resolved"]
                       ELSE ReactFrom(BatchPending(Len(fs)), started, 1)
           /\ settleOrder' = SettledIn(started, 1)
    /\ UNCHANGED <<extraVars, fitVars, otherVars, upload>>

(***************************************************************************)
(* reader.onload: the data URL is assigned to img.src, decoding starts.     *)
(***************************************************************************)
ReaderOnLoad(i) ==
    /\ AtStage(i, "reading")
    /\ calls' = [calls EXCEPT ![i].stack =
                    SetTop(@, [Top(i) EXCEPT !.pc = "decoding"])]
    /\ UNCHANGED <<extraVars, files, options, batch, settleOrder, fitVars, otherVars, upload>>

(***************************************************************************)
(* reader.onerror                                                           *)
(***************************************************************************)
ReaderOnError(i) ==
    /\ AtStage(i, "reading")
    /\ Settle(i, SetTop(calls[i].stack, FailedAt(calls[i].stack, Top(i), "read")),
              Rejected(<<"Failed to read file">>))
    /\ UNCHANGED <<extraVars, files, options, fitVars, otherVars>>

(***************************************************************************)
(* img.onerror                                                              *)
(***************************************************************************)
ImgOnError(i) ==
    /\ AtStage(i, "decoding")
    /\ Settle(i, SetTop(calls[i].stack, FailedAt(calls[i].stack, Top(i), "decode")),
              Rejected(<<"Failed to load image">>))
    /\ UNCHANGED <<extraVars, files, options, fitVars, otherVars>>

(***************************************************************************)
(* img.onload: dimension calculation, canvas, 2d context, drawImage and     *)
(* the call of canvas.toBlob.  env is what the browser does: "ok",          *)
(* "noContext" (getContext returns null) or "throws" (createElement,        *)
(* getContext or drawImage throws).                                         *)
(***************************************************************************)
\* variant in which a recursive attempt also halves the bounding box
LevelDimensionsHalved(file, opts, level) ==
    IF FGt(opts.quality, level.quality)
    THEN FitDimensions(file.width, file.height, (opts.maxWidth + 1) \div 2,
                       (opts.maxHeight + 1) \div 2, opts.maintainAspectRatio)
    ELSE FitDimensions(file.width, file.height, opts.maxWidth, opts.maxHeight,
                       opts.maintainAspectRatio)

\* the canvas of a level: every level decodes the original file, and the
\* options of a recursive call are {...options, quality: quality - 0.1}
LevelDimensions(file, opts, level) ==
    FitDimensions(file.width, file.height, opts.maxWidth, opts.maxHeight,
                  opts.maintainAspectRatio)

ImgOnLoad(i, env) ==
    /\ AtStage(i, "decoding")
    /\ LET dim   == LevelDimensions(files[i], options, Top(i))
           sized == [Top(i) EXCEPT !.width = dim.width, !.height = dim.height]
           stack == SetTop(calls[i].stack, sized)
       IN  CASE env = "noContext" ->
                  /\ Settle(i, SetTop(stack, FailedAt(calls[i].stack, sized, "context")),
                            Rejected(<<"Failed to get canvas context">>))
                  /\ UNCHANGED <<extraVars, files, options, fitVars, otherVars>>
             [] env = "throws" ->
                  /\ Settle(i, SetTop(stack, FailedAt(calls[i].stack, sized, "canvas")),
                            Rejected(<<"Canvas processing failed: ",
                                       "InvalidStateError">>))
                  /\ UNCHANGED <<extraVars, files, options, fitVars, otherVars>>
             [] OTHER ->
                  /\ calls' = [calls EXCEPT ![i].stack =
                                  SetTop(stack, [sized EXCEPT !.pc = "encoding"])]
                  /\ UNCHANGED <<extraVars, files, options, batch, settleOrder, fitVars, otherVars, upload>>

(***************************************************************************)
(* The toBlob callback.  size = 0 stands for a null blob.  When the blob    *)
(* is over the size target and quality > 0.5, compressImage is called       *)
(* again on the same file with quality - 0.1; the executor of that call     *)
(* runs at once, and the callback is suspended in its await.                *)
(***************************************************************************)
\* variants with a plausible slip: no quality floor, >= instead of >,
\* < instead of >
ShouldRecompressNoFloor(size, quality, opts) == OverBudget(size, opts)

ShouldRecompressInverted(size, quality, opts) ==
    ~OverBudget(size, opts) /\ FGt(quality, F0_5)

ShouldRecompressAtBudget(size, quality, opts) ==
    OverBudgetOrEqual(size, opts) /\ FGt(quality, F0_5)

ShouldRecompress(size, quality, opts) ==
    OverBudget(size, opts) /\ FGt(quality, F0_5)

NextQuality(quality) == FSub(quality, F0_1)

ToBlobCallback(i, size) ==
    /\ AtStage(i, "encoding")
    /\ LET level == [Top(i) EXCEPT !.blob = size]
           stack == SetTop(calls[i].stack, level)
       IN  IF size = 0
           THEN /\ Settle(i, SetTop(stack, FailedAt(calls[i].stack, level, "encode")),
                          Rejected(<<"Failed to create blob from canvas">>))
                /\ UNCHANGED <<extraVars, files, options, fitVars, otherVars>>
           ELSE IF ShouldRecompress(size, level.quality, options)
           THEN IF InputError(files[i]) # <<>>
                THEN /\ Settle(i, stack,
                               AwaitRecompressed(level,
                                   Rejected(InputError(files[i])),
                                   files[i], options))
                     /\ UNCHANGED <<extraVars, files, options, fitVars, otherVars>>
                ELSE /\ calls' = [calls EXCEPT ![i].stack =
                            Append(SetTop(stack, [level EXCEPT !.pc = "awaiting"]),
                                   NewLevel(NextQuality(level.quality)))]
                     /\ UNCHANGED <<extraVars, files, options, batch, settleOrder, fitVars, otherVars, upload>>
           ELSE /\ Settle(i, stack,
                          Resolved(CompressedFile(files[i], options, level)))
                /\ UNCHANGED <<extraVars, files, options, fitVars, otherVars>>

(***************************************************************************)
(* The dimension calculation on its own: applied to an input, then to its   *)
(* own output.                                                              *)
(***************************************************************************)
FitOf(src, in) ==
    FitDimensions(src.width, src.height, in.maxWidth, in.maxHeight,
                  in.maintainAspectRatio)

CalcDimensions ==
    /\ fitIn # <<>>
    /\ Len(fitOut) = 0
    /\ fitOut' = <<FitOf(fitIn[1], fitIn[1])>>
    /\ UNCHANGED <<extraVars, fitIn, batchVars, otherVars, upload>>

CalcDimensionsAgain ==
    /\ fitIn # <<>>
    /\ Len(fitOut) = 1
    /\ fitOut' = Append(fitOut, FitOf(fitOut[1], fitIn[1]))
    /\ UNCHANGED <<extraVars, fitIn, batchVars, otherVars, upload>>

(***************************************************************************)
(* isImageFile: file && file.type.startsWith('image/')                      *)
(***************************************************************************)
\* a variant with a plausible slip: only the presence is tested
IsImageFilePresentOnly(file) == file.present

IsImageFile(file) == file.present /\ file.type[1] = "image"

MimeText(type) == <<type[1], "/", type[2]>>

(***************************************************************************)
(* getImageInfo: the promise executor rejects a file that is not an image   *)
(* and otherwise starts the FileReader.                                     *)
(***************************************************************************)
GetImageInfoStart(file) ==
    IF ~IsImageFile(file)
    THEN [InfoIdle EXCEPT !.state = "rejected", !.file = file,
                          !.error = <<"Not an image file">>]
    ELSE [InfoIdle EXCEPT !.state = "reading", !.file = file, !.reads = 1]

\* the ImageInfo of img.onload
ImageInfo(file) ==
    [width |-> file.width, height |-> file.height, size |-> file.size,
     type |-> file.type, name |-> file.name]

(***************************************************************************)
(* validateImage up to its await: the four synchronous checks in the        *)
(* order of the code.  <<>> is "all passed".                                *)
(***************************************************************************)
\* Math.round(maxSize / 1024 / 1024): both divisions are exact in binary64
SizeLimitMB(maxSize) == (maxSize + MB \div 2) \div MB

Invalid(message) == [valid |-> FALSE, error |-> message]

Valid == [valid |-> TRUE, error |-> <<>>]

\* a variant with a plausible slip: the size check moved before the type
\* checks
SyncCheckSizeFirst(file, opts) ==
    IF ~file.present
    THEN <<"No file provided">>
    ELSE IF file.size > opts.maxSize
    THEN <<"File size exceeds ", ToString(SizeLimitMB(opts.maxSize)),
           "MB limit">>
    ELSE IF ~IsImageFile(file)
    THEN <<"File is not an image">>
    ELSE IF file.type \notin opts.allowedTypes
    THEN <<"File type ">> \o MimeText(file.type) \o <<" not allowed">>
    ELSE <<>>

SyncCheck(file, opts) ==
    IF ~file.present
    THEN <<"No file provided">>
    ELSE IF ~IsImageFile(file)
    THEN <<"File is not an image">>
    ELSE IF file.type \notin opts.allowedTypes
    THEN <<"File type ">> \o MimeText(file.type) \o <<" not allowed">>
    ELSE IF file.size > opts.maxSize
    THEN <<"File size exceeds ", ToString(SizeLimitMB(opts.maxSize)),
           "MB limit">>
    ELSE <<>>

\* validateImage(file, options) until it returns or suspends in
\* await getImageInfo(file): the pair of the validation and of the
\* getImageInfo call
ValidateImageStart(file, opts) ==
    IF SyncCheck(file, opts) # <<>>
    THEN <<[ValidationIdle EXCEPT !.state = "resolved", !.file = file,
                                  !.options = opts,
                                  !.result = <<Invalid(SyncCheck(file, opts))>>],
           InfoIdle>>
    ELSE <<[ValidationIdle EXCEPT !.state = "awaitingInfo", !.file = file,
                                  !.options = opts],
           GetImageInfoStart(file)>>

\* a variant with a plausible slip: no try/catch around the await
AfterInfoNoCatch(v, outcome) ==
    IF v.state # "awaitingInfo"
    THEN v
    ELSE IF ~outcome.ok
    THEN [v EXCEPT !.state = "rejected", !.error = outcome.error]
    ELSE [v EXCEPT !.state = "resolved", !.result = <<Valid>>]

\* the continuation of validateImage when getImageInfo settles
AfterInfo(v, outcome) ==
    IF v.state # "awaitingInfo"
    THEN v
    ELSE IF ~outcome.ok
    THEN [v EXCEPT !.state = "resolved",
                   !.result = <<Invalid(<<"Failed to read image dimensions">>)>>]
    ELSE IF \/ outcome.value[1].width > v.options.maxWidth
            \/ outcome.value[1].height > v.options.maxHeight
    THEN [v EXCEPT !.state = "resolved",
                   !.result = <<Invalid(<<"Image dimensions exceed ",
                                          ToString(v.options.maxWidth), "x",
                                          ToString(v.options.maxHeight),
                                          "px limit">>)>>]
    ELSE [v EXCEPT !.state = "resolved", !.result = <<Valid>>]

\* the continuation of an upload function after await validateImage:
\* throw when the result is invalid, otherwise call compressImage, whose
\* executor runs at once
CompressStarts(u, v) ==
    u.state = "validating" /\ v.state = "resolved" /\ v.result[1].valid

UploadAfterValidation(u, v) ==
    IF u.state # "validating" \/ v.state \notin {"resolved", "rejected"}
    THEN u
    ELSE IF v.state = "rejected"
    THEN UploadReject(u, v.error)
    ELSE IF ~v.result[1].valid
    THEN UploadReject(u, <<"Image validation failed: ">> \o v.result[1].error)
    ELSE IF InputError(u.file) # <<>>
    THEN UploadReject(u, InputError(u.file))
    ELSE [u EXCEPT !.state = "compressing"]

\* getImageInfo settles; the continuation of a validateImage that awaits
\* it, and of an upload function that awaits the validation, are
\* microtasks of the same event-loop turn
SettleInfo(outcome) ==
    LET v == AfterInfo(validation, outcome)
    IN  /\ info' = [info EXCEPT !.state = IF outcome.ok THEN "resolved"
                                          ELSE "rejected",
                                !.value = outcome.value,
                                !.error = outcome.error]
        /\ validation' = v
        /\ upload' = UploadAfterValidation(upload, v)
        /\ IF CompressStarts(upload, v)
           THEN /\ files' = <<upload.file>>
                /\ options' = UploadCompression(upload.kind)
                /\ calls' = <<StartCall(upload.file,
                                        UploadCompression(upload.kind))>>
           ELSE UNCHANGED <<extraVars, files, options, calls>>

\* nothing of the compression scenarios is running
CompressIdle == batch.state = "idle" /\ calls = <<>> /\ fitIn = <<>>

ValidateImage(file, opts) ==
    /\ CompressIdle
    /\ OthersIdle
    /\ validation' = ValidateImageStart(file, opts)[1]
    /\ info' = ValidateImageStart(file, opts)[2]
    /\ UNCHANGED <<extraVars, batchVars, fitVars, resize, upload, db>>

GetImageInfo(file) ==
    /\ CompressIdle
    /\ OthersIdle
    /\ info' = GetImageInfoStart(file)
    /\ UNCHANGED <<extraVars, batchVars, fitVars, validation, resize, upload, db>>

\* reader.onload of getImageInfo: img.src is assigned, decoding starts
InfoReaderOnLoad ==
    /\ info.state = "reading"
    /\ info' = [info EXCEPT !.state = "decoding", !.decodes = @ + 1]
    /\ UNCHANGED <<extraVars, batchVars, fitVars, validation, resize, upload, db>>

InfoReaderOnError ==
    /\ info.state = "reading"
    /\ SettleInfo(Rejected(<<"Failed to read file">>))
    /\ UNCHANGED <<extraVars, batch, settleOrder, fitVars, resize, db>>

InfoImgOnError ==
    /\ info.state = "decoding"
    /\ SettleInfo(Rejected(<<"Failed to load image">>))
    /\ UNCHANGED <<extraVars, batch, settleOrder, fitVars, resize, db>>

InfoImgOnLoad ==
    /\ info.state = "decoding"
    /\ SettleInfo(Resolved(ImageInfo(info.file)))
    /\ UNCHANGED <<extraVars, batch, settleOrder, fitVars, resize, db>>

(***************************************************************************)
(* resizeImage, fit 'cover': the source rectangle cropped out of a decoded  *)
(* image of width x height and the destination rectangle on the canvas,     *)
(* each <<x, y, width, height>>.  sourceRatio > targetRatio compares two    *)
(* correctly rounded quotients of small integers, which are ordered like    *)
(* the exact quotients.                                                     *)
(***************************************************************************)
\* variants with a plausible slip: the crop is drawn at its own size, the
\* crop is taken from the top left corner
CoverGeometryUnscaled(width, height, targetWidth, targetHeight) ==
    IF width * targetHeight > targetWidth * height
    THEN LET sWidth == RoundProduct(height, targetWidth, targetHeight)
         IN  [src |-> <<RoundHalf(width - sWidth), 0, sWidth, height>>,
              dst |-> <<0, 0, sWidth, height>>]
    ELSE LET sHeight == RoundQuotient(width, targetWidth, targetHeight)
         IN  [src |-> <<0, RoundHalf(height - sHeight), width, sHeight>>,
              dst |-> <<0, 0, width, sHeight>>]

CoverGeometryTopLeft(width, height, targetWidth, targetHeight) ==
    IF width * targetHeight > targetWidth * height
    THEN [src |-> <<0, 0, RoundProduct(height, targetWidth, targetHeight),
                    height>>,
          dst |-> <<0, 0, targetWidth, targetHeight>>]
    ELSE [src |-> <<0, 0, width,
                    RoundQuotient(width, targetWidth, targetHeight)>>,
          dst |-> <<0, 0, targetWidth, targetHeight>>]

CoverGeometry(width, height, targetWidth, targetHeight) ==
    IF width * targetHeight > targetWidth * height
    THEN LET sWidth == RoundProduct(height, targetWidth, targetHeight)
         IN  [src |-> <<RoundHalf(width - sWidth), 0, sWidth, height>>,
              dst |-> <<0, 0, targetWidth, targetHeight>>]
    ELSE LET sHeight == RoundQuotient(width, targetWidth, targetHeight)
         IN  [src |-> <<0, RoundHalf(height - sHeight), width, sHeight>>,
              dst |-> <<0, 0, targetWidth, targetHeight>>]

(***************************************************************************)
(* resizeImage, fit 'contain': Math.min(targetWidth / width,                *)
(* targetHeight / height) is targetWidth / width exactly when               *)
(* targetWidth * height <= targetHeight * width.                            *)
(***************************************************************************)
ContainGeometry(width, height, targetWidth, targetHeight) ==
    LET byWidth == targetWidth * height <= targetHeight * width
        a == IF byWidth THEN targetWidth ELSE targetHeight
        b == IF byWidth THEN width ELSE height
        dWidth  == RoundProduct(width, a, b)
        dHeight == RoundProduct(height, a, b)
    IN  [src |-> <<0, 0, width, height>>,
         dst |-> <<RoundHalf(targetWidth - dWidth),
                   RoundHalf(targetHeight - dHeight), dWidth, dHeight>>]

ResizeGeometry(fit, width, height, targetWidth, targetHeight) ==
    IF fit = "cover"
    THEN CoverGeometry(width, height, targetWidth, targetHeight)
    ELSE ContainGeometry(width, height, targetWidth, targetHeight)

FillRect(targetWidth, targetHeight) ==
    [op |-> "fillRect", fillStyle |-> "#000000",
     src |-> <<>>, dst |-> <<0, 0, targetWidth, targetHeight>>]

DrawImage(geometry) ==
    [op |-> "drawImage", fillStyle |-> "", src |-> geometry.src,
     dst |-> geometry.dst]

\* the operations on the 2d context up to drawImage, in program order
\* (a variant with a plausible slip: the background is filled over the
\* drawn image)
CanvasOpsFillLast(fit, geometry, targetWidth, targetHeight) ==
    IF fit = "cover"
    THEN <<DrawImage(geometry)>>
    ELSE <<DrawImage(geometry), FillRect(targetWidth, targetHeight)>>

CanvasOps(fit, geometry, targetWidth, targetHeight) ==
    IF fit = "cover"
    THEN <<DrawImage(geometry)>>
    ELSE <<FillRect(targetWidth, targetHeight), DrawImage(geometry)>>

\* the File of the toBlob callback: fileName || 'resized-image.jpg'
ResizedFile(file) ==
    [name |-> IF file.name.stem = "" /\ file.name.ext = ""
              THEN [stem |-> "resized-image", ext |-> "jpg"]
              ELSE file.name,
     type |-> <<"image", "jpeg">>]

(***************************************************************************)
(* resizeImage(file, targetWidth, targetHeight, {fit}): the promise         *)
(* executor and the event handlers.                                         *)
(***************************************************************************)
ResizeImage(file, targetWidth, targetHeight, fit) ==
    /\ CompressIdle
    /\ OthersIdle
    /\ resize' = IF ~IsImageFile(file)
                 THEN [ResizeIdle EXCEPT !.state = "rejected", !.file = file,
                           !.targetWidth = targetWidth,
                           !.targetHeight = targetHeight, !.fit = fit,
                           !.error = <<"File is not an image">>]
                 ELSE [ResizeIdle EXCEPT !.state = "reading", !.file = file,
                           !.targetWidth = targetWidth,
                           !.targetHeight = targetHeight, !.fit = fit,
                           !.reads = 1]
    /\ UNCHANGED <<extraVars, batchVars, fitVars, validation, info, upload, db>>

ResizeReaderOnLoad ==
    /\ resize.state = "reading"
    /\ resize' = [resize EXCEPT !.state = "decoding", !.decodes = @ + 1]
    /\ UNCHANGED <<extraVars, batchVars, fitVars, validation, info, upload, db>>

ResizeReaderOnError ==
    /\ resize.state = "reading"
    /\ resize' = [resize EXCEPT !.state = "rejected", !.failed = "read",
                                !.error = <<"Failed to read file">>]
    /\ UNCHANGED <<extraVars, batchVars, fitVars, validation, info, upload, db>>

ResizeImgOnError ==
    /\ resize.state = "decoding"
    /\ resize' = [resize EXCEPT !.state = "rejected", !.failed = "decode",
                                !.error = <<"Failed to load image">>]
    /\ UNCHANGED <<extraVars, batchVars, fitVars, validation, info, upload, db>>

\* img.onload.  env is what the browser does: "ok", "noContext"
\* (getContext returns null), "throws" (createElement or getContext
\* throws) or "drawThrows" (drawImage throws).
ResizeImgOnLoad(env) ==
    /\ resize.state = "decoding"
    /\ LET canvas   == [width |-> resize.targetWidth,
                        height |-> resize.targetHeight]
           geometry == ResizeGeometry(resize.fit, resize.file.width,
                                      resize.file.height, resize.targetWidth,
                                      resize.targetHeight)
           ops      == CanvasOps(resize.fit, geometry, resize.targetWidth,
                                 resize.targetHeight)
       IN  resize' =
             CASE env = "throws" ->
                    [resize EXCEPT !.state = "rejected", !.failed = "canvas",
                                   !.error = <<"Resize failed: ",
                                               "InvalidStateError">>]
               [] env = "noContext" ->
                    [resize EXCEPT !.state = "rejected", !.canvas = <<canvas>>,
                                   !.failed = "context",
                                   !.error = <<"Failed to get canvas context">>]
               [] env = "drawThrows" ->
                    [resize EXCEPT !.state = "rejected", !.canvas = <<canvas>>,
                                   !.ops = SubSeq(ops, 1, Len(ops) - 1),
                                   !.failed = "canvas",
                                   !.error = <<"Resize failed: ",
                                               "InvalidStateError">>]
               [] OTHER ->
                    [resize EXCEPT !.state = "encoding", !.canvas = <<canvas>>,
                                   !.ops = ops]
    /\ UNCHANGED <<extraVars, batchVars, fitVars, validation, info, upload, db>>

\* the toBlob callback; hasBlob = FALSE stands for a null blob
ResizeToBlobCallback(hasBlob) ==
    /\ resize.state = "encoding"
    /\ resize' = IF hasBlob
                 THEN [resize EXCEPT !.state = "resolved",
                                     !.value = <<ResizedFile(resize.file)>>]
                 ELSE [resize EXCEPT !.state = "rejected", !.failed = "encode",
                           !.error = <<"Failed to create blob from canvas">>]
    /\ UNCHANGED <<extraVars, batchVars, fitVars, validation, info, upload, db>>

(***************************************************************************)
(* uploadMomentImage(userId, momentId, imageType, file) and                 *)
(* uploadProfileImage(userId, file) up to the first await that suspends.    *)
(* A validation that fails a synchronous check is already resolved, and     *)
(* the continuation runs in the same turn.                                  *)
(***************************************************************************)
UploadPath(kind, userId, momentId, imageType) ==
    IF kind = "moment"
    THEN <<userId, momentId, imageType, "_camera.jpg">>
    ELSE <<userId, "avatar.jpg">>

UploadBucket(kind) == IF kind = "moment" THEN "moments" ELSE "profiles"

UploadImage(kind, file) ==
    /\ CompressIdle
    /\ OthersIdle
    /\ LET start == ValidateImageStart(file, UploadValidation(kind))
           call  == [UploadIdle EXCEPT
                        !.state = "validating", !.kind = kind, !.file = file,
                        !.bucket = UploadBucket(kind),
                        !.path = UploadPath(kind, "user-1", "moment-1", "front")]
       IN  /\ validation' = start[1]
           /\ info' = start[2]
           /\ upload' = UploadAfterValidation(call, start[1])
    /\ UNCHANGED <<extraVars, batchVars, fitVars, resize, db>>

(***************************************************************************)
(* The response of supabase.storage.from(bucket).upload(...), and the       *)
(* synchronous getPublicUrl after it.  response is "ok", "error" (the       *)
(* platform returned an error), "noData" or "noUrl" (getPublicUrl           *)
(* returned no publicUrl).                                                  *)
(***************************************************************************)
StorageResponse(response) ==
    /\ upload.state = "uploading"
    /\ upload' =
         CASE response = "error" ->
                UploadReject(upload, <<"Upload failed: ", "storage error">>)
           [] response = "noData" ->
                UploadReject(upload, <<"Upload failed: No data returned">>)
           [] response = "noUrl" ->
                UploadReject(upload, <<"Failed to get public URL">>)
           [] OTHER ->
                [upload EXCEPT !.state = "resolved",
                               !.value = <<"public", upload.bucket>>
                                         \o upload.path]
    /\ UNCHANGED <<extraVars, batchVars, fitVars, validation, info, resize, db>>

(***************************************************************************)
(* The entity modules.  A call is a chain of platform queries; the          *)
(* platform executes a query and the call continues with its response in    *)
(* one step.  `before` and `after` are the tables when the call was made    *)
(* and when it settled.                                                     *)
(***************************************************************************)
NewCall(entity, op, args, pc, target) ==
    [entity |-> entity, op |-> op, args |-> args, pc |-> pc,
     target |-> target, now |-> db.clock + 1, state |-> "pending",
     value |-> <<>>, error |-> <<>>, lookupFailed |-> FALSE,
     before |-> db.tables, after |-> db.tables]

\* the first query of a call
FirstQuery(entity, op) ==
    IF op = "create" THEN "lookup"
    ELSE IF entity = "moment" THEN "update" ELSE "delete"

EntityCall(entity, op, args) ==
    /\ CompressIdle
    /\ validation.state = "idle" /\ info.state = "idle"
    /\ resize.state = "idle" /\ upload.state = "idle"
    /\ Len(db.calls) < MaxCalls
    /\ db' = [db EXCEPT !.state = "active",
                        !.clock = @ + 1,
                        !.calls = Append(@, NewCall(entity, op, args,
                                                    FirstQuery(entity, op),
                                                    args))]
    /\ UNCHANGED <<extraVars, batchVars, fitVars, validation, info, resize, upload>>

\* a call made when every earlier call has settled
NoPendingCall == \A i \in DOMAIN db.calls : db.calls[i].state # "pending"

SequentialCall(entity, op, args) ==
    /\ NoPendingCall
    /\ EntityCall(entity, op, args)

(***************************************************************************)
(* The effect of the queries on the tables.                                 *)
(***************************************************************************)
\* .from('likes').select('id').eq('moment_id', m).eq('user_id', u)
LikesOf(tables, userId, momentId) ==
    {r \in tables.likes : r.user_id = userId /\ r.moment_id = momentId}

\* moment.js deleteById: .update({is_deleted: true, deleted_at}).eq('id', id)
SoftDelete(tables, id, now) ==
    [tables EXCEPT !.moments =
        {IF r.id = id
         THEN [r EXCEPT !.is_deleted = TRUE, !.deleted_at = now]
         ELSE r : r \in @}]

\* a variant with a plausible slip: the delete has no filter that matches
\* and removes nothing
HardDeleteKeeps(tables, entity, args) == tables

\* deleteById of the other entities: .delete() with the .eq filters
HardDelete(tables, entity, args) ==
    CASE entity = "like" ->
           [tables EXCEPT !.likes = {r \in @ : r.id # args[1]}]
      [] entity = "comment" ->
           [tables EXCEPT !.comments = {r \in @ : r.id # args[1]}]
      [] entity = "follow" ->
           [tables EXCEPT !.follows =
               {r \in @ : ~(r.follower_id = args[1] /\ r.following_id = args[2])}]
      [] entity = "circle" ->
           [tables EXCEPT !.circles = {r \in @ : r.id # args[1]}]
      [] entity = "circleWhitelist" ->
           [tables EXCEPT !.circle_whitelist =
               {r \in @ : ~(r.circle_id = args[1] /\ r.user_id = args[2])}]

\* the context of the error messages
DeleteContext(entity) ==
    CASE entity = "like" -> "Failed to delete like: "
      [] entity = "comment" -> "Failed to delete comment: "
      [] entity = "follow" -> "Failed to delete follow: "
      [] entity = "circle" -> "Failed to delete circle: "
      [] entity = "circleWhitelist" -> "Failed to delete whitelist entry: "
      [] entity = "moment" -> "Failed to delete moment: "

Settled(call, tables, state, value, error) ==
    [call EXCEPT !.pc = "done", !.state = state, !.value = value,
                 !.error = error, !.after = tables]

(***************************************************************************)
(* The response to the query call i is waiting for.  failed: the platform   *)
(* returned an error for the query (for an insert this includes a           *)
(* constraint of the table refusing the row) and changed nothing.           *)
(***************************************************************************)
\* like.js create after the lookup: existing.data is the row when exactly
\* one row matched (.single()), and null otherwise and on an error, which
\* is not looked at
AfterLookup(call, tables, failed) ==
    LET rows == LikesOf(tables, call.args[1], call.args[2])
    IN  IF ~failed /\ Cardinality(rows) = 1
        THEN [call EXCEPT !.pc = "delete",
                          !.target = <<(CHOOSE r \in rows : TRUE).id>>]
        ELSE [call EXCEPT !.pc = "insert", !.lookupFailed = failed]

QueryResponse(i, failed) ==
    /\ i \in DOMAIN db.calls
    /\ db.calls[i].state = "pending"
    /\ LET call == db.calls[i]
           t    == db.tables
       IN  CASE call.pc = "lookup" ->
                  db' = [db EXCEPT !.calls[i] = AfterLookup(call, t, failed)]
             [] call.pc = "insert" ->
                  IF failed
                  THEN db' = [db EXCEPT !.calls[i] =
                                Settled(call, t, "rejected", <<>>,
                                        <<"Failed to like: ", "platform error">>)]
                  ELSE LET row == [id |-> db.nextId, user_id |-> call.args[1],
                                   moment_id |-> call.args[2]]
                           t2  == [t EXCEPT !.likes = @ \cup {row}]
                       IN  db' = [db EXCEPT !.tables = t2, !.nextId = @ + 1,
                                            !.calls[i] =
                                              Settled(call, t2, "resolved",
                                                      <<row>>, <<>>)]
             [] call.pc = "delete" ->
                  IF failed
                  THEN db' = [db EXCEPT !.calls[i] =
                                Settled(call, t, "rejected", <<>>,
                                        <<DeleteContext(call.entity),
                                          "platform error">>)]
                  ELSE LET t2 == HardDelete(t, call.entity, call.target)
                       IN  db' = [db EXCEPT !.tables = t2,
                                            !.calls[i] =
                                              Settled(call, t2, "resolved",
                                                      <<>>, <<>>)]
             [] call.pc = "update" ->
                  IF failed \/ ~\E r \in t.moments : r.id = call.target[1]
                  THEN db' = [db EXCEPT !.calls[i] =
                                Settled(call, t, "rejected", <<>>,
                                        <<DeleteContext(call.entity),
                                          "platform error">>)]
                  ELSE LET t2 == SoftDelete(t, call.target[1], call.now)
                       IN  db' = [db EXCEPT !.tables = t2,
                                            !.calls[i] =
                                              Settled(call, t2, "resolved",
                                                      <<CHOOSE r \in t2.moments :
                                                          r.id = call.target[1]>>,
                                                      <<>>)]
    /\ UNCHANGED <<extraVars, batchVars, fitVars, validation, info, resize, upload>>

(***************************************************************************)
(* SupabaseAuthProvider.  An optional string is <<>> (undefined) or a       *)
(* one-element sequence.  The users the platform can return: one with all   *)
(* fields, one without email and created_at and with a username in its      *)
(* metadata.                                                                *)
(***************************************************************************)
AuthUsers ==
    {[id |-> "uid-1", email |-> <<"ada@example.org">>, username |-> <<>>,
      created_at |-> <<"2024-01-01">>],
     [id |-> "uid-2", email |-> <<>>, username |-> <<"meta-name">>,
      created_at |-> <<>>]}

\* mapAuthUserToProfile
MapAuthUserToProfile(authUser) ==
    [id |-> authUser.id,
     email |-> IF authUser.email = <<>> THEN "" ELSE authUser.email[1],
     username |-> authUser.username,
     created_at |-> IF authUser.created_at = <<>>
                    THEN "now" ELSE authUser.created_at[1]]

\* if (credentials.username): undefined and '' are falsy
Truthy(text) == text # <<>> /\ text[1] # ""

OtherScenariosIdle ==
    /\ CompressIdle
    /\ OthersIdle
    /\ signup.state = "idle"
    /\ authContext.state = "unmounted"
    /\ storage.state = "idle"

\* signup(credentials) up to its first await
Signup(username) ==
    /\ OtherScenariosIdle
    /\ signup' = [SignupIdle EXCEPT !.state = "signingUp",
                                    !.username = username]
    /\ UNCHANGED <<batchVars, fitVars, otherVars, upload, authContext, storage>>

SignupSettle(call, outcome) ==
    [call EXCEPT !.state = IF outcome.ok THEN "resolved" ELSE "rejected",
                 !.value = outcome.value, !.error = outcome.error]

\* the outer catch: an Error is rethrown with the prefix
SignupError(message) == Rejected(<<"Signup error: ">> \o message)

\* the answer of supabase.auth.signUp: "user" (data.user is authUser),
\* "error", "noUser", or "throws" (the call throws an Error)
SignUpResponse(outcome, authUser) ==
    /\ signup.state = "signingUp"
    /\ LET call == [signup EXCEPT !.signUp = outcome]
           user == MapAuthUserToProfile(authUser)
       IN  signup' =
             CASE outcome = "error" ->
                    SignupSettle(call, SignupError(<<"Signup failed: ",
                                                     "platform error">>))
               [] outcome = "noUser" ->
                    SignupSettle(call,
                        SignupError(<<"Signup failed: No user returned">>))
               [] outcome = "throws" ->
                    SignupSettle(call, SignupError(<<"network error">>))
               [] OTHER ->
                    IF Truthy(call.username)
                    THEN [call EXCEPT !.state = "updating", !.user = <<user>>]
                    ELSE SignupSettle([call EXCEPT !.user = <<user>>],
                                      Resolved(user))
    /\ UNCHANGED <<batchVars, fitVars, otherVars, upload, authContext, storage>>

\* variant without the inner try/catch: a failed update fails the signup
AfterUsernameUpdateNoCatch(user, username, outcome) ==
    IF outcome = "ok"
    THEN Resolved([user EXCEPT !.username = username])
    ELSE SignupError(<<"Profile username update failed: ", "platform error">>)

\* the continuation after the profiles update: "ok", "error" (updateError
\* is set) or "throws"; both failures end in the empty inner catch
AfterUsernameUpdate(user, username, outcome) ==
    IF outcome = "ok"
    THEN Resolved([user EXCEPT !.username = username])
    ELSE Resolved(user)

UsernameUpdateResponse(outcome) ==
    /\ signup.state = "updating"
    /\ signup' = SignupSettle([signup EXCEPT !.update = outcome],
                              AfterUsernameUpdate(signup.user[1],
                                                  signup.username, outcome))
    /\ UNCHANGED <<batchVars, fitVars, otherVars, upload, authContext, storage>>

(***************************************************************************)
(* AuthProvider.  The effect of the mount calls initAuth, which runs up to  *)
(* its await of authService.getUser(), and then subscribes to the           *)
(* auth-state changes.  Afterwards the getUser result and the events are    *)
(* delivered by the event loop in any order.                                *)
(***************************************************************************)
SessionUsers == {<<>>} \cup {<<MapAuthUserToProfile(a)>> : a \in AuthUsers}

Mount ==
    /\ OtherScenariosIdle
    /\ authContext' = [AuthContextIdle EXCEPT !.state = "mounted",
                                              !.getUser = "pending"]
    /\ UNCHANGED <<batchVars, fitVars, otherVars, upload, signup, storage>>

\* the continuation of initAuth: setUser(currentUser), or setUser(null) in
\* the catch when getUser failed, then setLoading(false) in the finally
InitAuthSettles(failed, currentUser) ==
    /\ authContext.getUser = "pending"
    /\ authContext' = [authContext EXCEPT
                          !.user = IF failed THEN <<>> ELSE currentUser,
                          !.loading = FALSE,
                          !.getUser = "done"]
    /\ UNCHANGED <<batchVars, fitVars, otherVars, upload, signup, storage>>

\* the callback given to onAuthStateChange: session?.user mapped, or null
AuthStateChange(sessionUser) ==
    /\ authContext.state = "mounted"
    /\ Len(authContext.events) < MaxEvents
    /\ authContext' = [authContext EXCEPT !.user = sessionUser,
                                          !.loading = FALSE,
                                          !.events = Append(@, sessionUser)]
    /\ UNCHANGED <<batchVars, fitVars, otherVars, upload, signup, storage>>

(***************************************************************************)
(* Storage paths and the bucket chosen from a path.  A string is the        *)
(* sequence of its pieces, "/" and "." being pieces of their own, so that   *)
(* startsWith and includes are tests on sub-sequences.                      *)
(***************************************************************************)
StartsWith(text, prefix) ==
    /\ Len(text) >= Len(prefix)
    /\ SubSeq(text, 1, Len(prefix)) = prefix

Includes(text, part) ==
    \E k \in 1..(Len(text) - Len(part) + 1) :
        SubSeq(text, k, k + Len(part) - 1) = part

\* `${userId}/${momentId}/${imageType}_camera.jpg`
MomentImagePath(userId, momentId, imageType) ==
    userId \o <<"/">> \o momentId \o <<"/", imageType, "_camera", ".", "jpg">>

\* `${userId}/avatar.jpg`
ProfileImagePath(userId) == userId \o <<"/", "avatar", ".", "jpg">>

\* `temp/${userId}/${timestamp}_${file.name}`
TempFilePath(userId, timestamp, fileName) ==
    <<"temp", "/">> \o userId \o <<"/", timestamp, "_">> \o fileName

\* the bucket an upload function writes to
StorageBucket(kind) ==
    IF kind = "temp" THEN "temp-uploads" ELSE UploadBucket(kind)

\* getSignedUrl and deleteFile, "Determine bucket from path"
RouteBucket(path) ==
    IF StartsWith(path, <<"temp", "/">>) THEN "temp-uploads"
    ELSE IF Includes(path, <<"/", "avatar", ".">>) THEN "profiles"
    ELSE "moments"

\* the storage request of an upload function: the bucket and the path it
\* passes to supabase.storage.from(bucket).upload(path, ...)
UploadWrites(kind, userId, momentId, imageType, fileName) ==
    /\ OtherScenariosIdle
    /\ storage' = [StorageIdle EXCEPT
                      !.state = "written", !.upload = kind,
                      !.bucket = StorageBucket(kind),
                      !.path = CASE kind = "moment" ->
                                      MomentImagePath(userId, momentId, imageType)
                                 [] kind = "profile" -> ProfileImagePath(userId)
                                 [] OTHER ->
                                      TempFilePath(userId, "1700000000000",
                                                   fileName)]
    /\ UNCHANGED <<batchVars, fitVars, otherVars, upload, signup, authContext>>

\* getSignedUrl(path) or deleteFile(path) on the written path, up to the
\* storage request
RoutePath(operation) ==
    /\ storage.state = "written"
    /\ storage' = [storage EXCEPT !.state = "routed",
                                  !.operation = operation,
                                  !.routed = RouteBucket(storage.path)]
    /\ UNCHANGED <<batchVars, fitVars, otherVars, upload, signup, authContext>>

(***************************************************************************)
(* Specifications.                                                          *)
(***************************************************************************)
Idle ==
    /\ files = <<>>
    /\ options = DefaultOptions
    /\ calls = <<>>
    /\ batch = [BatchPending(0) EXCEPT !.state = "idle"]
    /\ settleOrder = <<>>
    /\ validation = ValidationIdle
    /\ info = InfoIdle
    /\ resize = ResizeIdle
    /\ upload = UploadIdle
    /\ db = DbIdle
    /\ signup = SignupIdle
    /\ authContext = AuthContextIdle
    /\ storage = StorageIdle

Init ==
    /\ Idle
    /\ fitIn = <<>>
    /\ fitOut = <<>>

FileSeqs == UNION {[1..n -> FileChoices] : n \in 0..MaxFiles}

Next ==
    \/ \E fs \in FileSeqs, opts \in OptionChoices : BatchCompressImages(fs, opts)
    \/ \E i \in DOMAIN calls : ReaderOnLoad(i)
    \/ \E i \in DOMAIN calls : ReaderOnError(i)
    \/ \E i \in DOMAIN calls : ImgOnError(i)
    \/ \E i \in DOMAIN calls, env \in {"ok", "noContext", "throws"} : ImgOnLoad(i, env)
    \/ \E i \in DOMAIN calls : \E size \in {0} \cup BlobSizes(options) :
           ToBlobCallback(i, size)

Spec == Init /\ [][Next]_vars

\* the inputs of the dimension calculation: every source up to
\* MaxDim x MaxDim against every bound up to MaxBound x MaxBound, and
\* samples of real sizes (the second one is a source whose exact half is
\* lost to float rounding)
FitSamples ==
    {<<4000, 3000, 1920, 1920>>, <<11, 22, 8, 15>>, <<1600, 900, 512, 512>>,
     <<300, 200, 1920, 1920>>, <<2736, 5472, 1171, 1791>>}

FitInputs ==
    {<<w, h, mw, mh>> : w \in 1..MaxDim, h \in 1..MaxDim,
                        mw \in 1..MaxBound, mh \in 1..MaxBound}
    \cup FitSamples

InitFit ==
    /\ Idle
    /\ \E t \in FitInputs, mar \in BOOLEAN :
          fitIn = <<[width |-> t[1], height |-> t[2], maxWidth |-> t[3],
                     maxHeight |-> t[4], maintainAspectRatio |-> mar]>>
    /\ fitOut = <<>>

NextFit == CalcDimensions \/ CalcDimensionsAgain

SpecFit == InitFit /\ [][NextFit]_vars

\* the batch scenario and the dimension calculation in one specification:
\* a behaviour starts as one or the other
InitCompress == Init \/ InitFit

NextCompress == Next \/ NextFit

SpecCompress == InitCompress /\ [][NextCompress]_vars

\* the inputs of validateImage and getImageInfo: no file, a text file, and
\* images of an allowed or another type, with sizes and dimensions at,
\* below and above the limits of the three option sets
ValidationSizes == {1000, 10 * MB, 10 * MB + 1, 50 * MB + 1}

ValidationDims ==
    {<<500, 500>>, <<4097, 4096>>, <<8192, 8192>>, <<8193, 100>>,
     <<100, 8193>>}

ValidationFiles ==
    {NullFile}
    \cup {SizedFile(TextFile, size) : size \in ValidationSizes}
    \cup {SizedFile(ImageFile(minor, "IMG_0001", minor, d[1], d[2]), size) :
            minor \in {"gif", "png", "jpeg"}, d \in ValidationDims,
            size \in ValidationSizes}

ValidationChoices == {DefaultValidation, MomentValidation, ProfileValidation}

NextValidate ==
    \/ \E file \in ValidationFiles, opts \in ValidationChoices :
           ValidateImage(file, opts)
    \/ \E file \in ValidationFiles : GetImageInfo(file)
    \/ InfoReaderOnLoad
    \/ InfoReaderOnError
    \/ InfoImgOnError
    \/ InfoImgOnLoad

SpecValidate == Init /\ [][NextValidate]_vars

\* the inputs of resizeImage: the sources and targets of FitInputs as
\* image and target box, and two files that are not images
ResizeInputs ==
    {<<ImageFile("png", "IMG_0001", "png", t[1], t[2]), t[3], t[4]>> :
        t \in FitInputs}
    \cup {<<NullFile, 512, 512>>, <<TextFile, 512, 512>>}

NextResize ==
    \/ \E in \in ResizeInputs, fit \in {"cover", "contain"} :
           ResizeImage(in[1], in[2], in[3], fit)
    \/ ResizeReaderOnLoad
    \/ ResizeReaderOnError
    \/ ResizeImgOnError
    \/ \E env \in {"ok", "noContext", "throws", "drawThrows"} :
           ResizeImgOnLoad(env)
    \/ \E hasBlob \in BOOLEAN : ResizeToBlobCallback(hasBlob)

SpecResize == Init /\ [][NextResize]_vars

\* the image utilities in one specification: a behaviour is a batch
\* compression, a validation, a getImageInfo call or a resize
NextImage == Next \/ NextValidate \/ NextResize

SpecImage == Init /\ [][NextImage]_vars

\* the upload functions: files that fail a synchronous check, and images
\* of an allowed type at and over the dimension limits
UploadFiles ==
    {NullFile, SizedFile(TextFile, 1000)}
    \cup {SizedFile(ImageFile(minor, "IMG_0001", minor, d[1], d[2]), size) :
            minor \in {"gif", "png"},
            d \in {<<500, 500>>, <<4097, 4096>>, <<8193, 100>>},
            size \in {1000, 10 * MB + 1}}

NextUpload ==
    \/ \E kind \in {"moment", "profile"}, file \in UploadFiles :
           UploadImage(kind, file)
    \/ InfoReaderOnLoad
    \/ InfoReaderOnError
    \/ InfoImgOnError
    \/ InfoImgOnLoad
    \/ \E i \in DOMAIN calls : ReaderOnLoad(i)
    \/ \E i \in DOMAIN calls : ReaderOnError(i)
    \/ \E i \in DOMAIN calls : ImgOnError(i)
    \/ \E i \in DOMAIN calls, env \in {"ok", "noContext", "throws"} : ImgOnLoad(i, env)
    \/ \E i \in DOMAIN calls : \E size \in {0} \cup BlobSizes(options) :
           ToBlobCallback(i, size)
    \/ \E response \in {"ok", "error", "noData", "noUrl"} :
           StorageResponse(response)

SpecUpload == Init /\ [][NextUpload]_vars

\* the entity-module calls of the model, made one after the other
EntityCalls ==
    {<<"like", "create", <<"user-1", "moment-1">>>>,
     <<"like", "create", <<"user-2", "moment-1">>>>,
     <<"like", "deleteById", <<1>>>>,
     <<"moment", "deleteById", <<"moment-1">>>>,
     <<"moment", "deleteById", <<"moment-9">>>>,
     <<"comment", "deleteById", <<"comment-1">>>>,
     <<"follow", "deleteById", <<"user-1", "user-2">>>>,
     <<"circle", "deleteById", <<"circle-1">>>>,
     <<"circleWhitelist", "deleteById", <<"circle-1", "user-1">>>>}

NextEntities ==
    \/ \E c \in EntityCalls : SequentialCall(c[1], c[2], c[3])
    \/ \E i \in DOMAIN db.calls, failed \in BOOLEAN : QueryResponse(i, failed)

SpecEntities == Init /\ [][NextEntities]_vars

\* one compressImage call (a batch of one file) or one resizeImage call
\* in which every stage that was started reports back: the browser eventually fires one of the handlers
\* of a pending read, decode or encode
StageInputs ==
    {<<ImageFile("png", "IMG_0001", "png", t[1], t[2]), t[3], t[4]>> :
        t \in FitSamples}
    \cup {<<TextFile, 512, 512>>}

CompressReports ==
    \/ \E i \in DOMAIN calls : ReaderOnLoad(i)
    \/ \E i \in DOMAIN calls : ReaderOnError(i)
    \/ \E i \in DOMAIN calls : ImgOnError(i)
    \/ \E i \in DOMAIN calls, env \in {"ok", "noContext", "throws"} : ImgOnLoad(i, env)
    \/ \E i \in DOMAIN calls : \E size \in {0} \cup BlobSizes(options) :
           ToBlobCallback(i, size)

ResizeReports ==
    \/ ResizeReaderOnLoad
    \/ ResizeReaderOnError
    \/ ResizeImgOnError
    \/ \E env \in {"ok", "noContext", "throws", "drawThrows"} :
           ResizeImgOnLoad(env)
    \/ \E hasBlob \in BOOLEAN : ResizeToBlobCallback(hasBlob)

NextStages ==
    \/ \E f \in FileChoices, opts \in OptionChoices :
           BatchCompressImages(<<f>>, opts)
    \/ \E in \in StageInputs, fit \in {"cover", "contain"} :
           ResizeImage(in[1], in[2], in[3], fit)
    \/ CompressReports
    \/ ResizeReports

SpecStages ==
    /\ Init
    /\ [][NextStages]_vars
    /\ WF_vars(CompressReports)
    /\ WF_vars(ResizeReports)

\* Like.create calls that overlap: a call can be made while earlier ones
\* are between their queries, and the platform answers the pending
\* queries in any order
LikePairs == {<<"user-1", "moment-1">>, <<"user-2", "moment-1">>}

NextLikes ==
    \/ \E pair \in LikePairs : EntityCall("like", "create", pair)
    \/ \E i \in DOMAIN db.calls, failed \in BOOLEAN : QueryResponse(i, failed)

SpecLikes == Init /\ [][NextLikes]_vars

\* the authentication module: a behaviour is one signup call or the life
\* of one mounted AuthProvider
Usernames == {<<>>, <<"">>, <<"ada">>}

NextAuth ==
    \/ \E username \in Usernames : Signup(username)
    \/ \E outcome \in {"user", "error", "noUser", "throws"}, a \in AuthUsers :
           SignUpResponse(outcome, a)
    \/ \E outcome \in {"ok", "error", "throws"} : UsernameUpdateResponse(outcome)
    \/ Mount
    \/ \E failed \in BOOLEAN, currentUser \in SessionUsers :
           InitAuthSettles(failed, currentUser)
    \/ \E sessionUser \in SessionUsers : AuthStateChange(sessionUser)

SpecAuth == Init /\ [][NextAuth]_vars

\* uploads followed by a getSignedUrl or deleteFile of the written path.
\* The ids are strings the signatures accept: ordinary ones, 'temp', and
\* one that starts with 'avatar.'.
StorageUserIds == {<<"user-1">>, <<"user-2">>, <<"temp">>, <<"avatar", ".", "x">>}

StorageMomentIds == {<<"moment-1">>, <<"moment-2">>, <<"avatar", ".", "v2">>}

StorageFileNames == {<<"photo", ".", "png">>, <<"avatar", ".", "png">>}

StorageUploads ==
    {<<"moment", u, m, t, <<>>>> :
        u \in StorageUserIds, m \in StorageMomentIds, t \in {"front", "back"}}
    \cup {<<"profile", u, <<>>, "", <<>>>> : u \in StorageUserIds}
    \cup {<<"temp", u, <<>>, "", f>> :
            u \in StorageUserIds, f \in StorageFileNames}

NextStorage ==
    \/ \E in \in StorageUploads : UploadWrites(in[1], in[2], in[3], in[4], in[5])
    \/ \E operation \in {"getSignedUrl", "deleteFile"} : RoutePath(operation)

SpecStorage == Init /\ [][NextStorage]_vars

(***************************************************************************)
(* Properties.                                                              *)
(***************************************************************************)
FitApplied == fitIn # <<>> /\ Len(fitOut) >= 1

ScaleDownTriggers(in) == in.width > in.maxWidth \/ in.height > in.maxHeight

Abs(x) == IF x < 0 THEN -x ELSE x

\* C1: with maintainAspectRatio, a source that exceeds a bound is given a
\* canvas within both bounds.
C1_TargetWithinBounds ==
    (FitApplied /\ fitIn[1].maintainAspectRatio /\ ScaleDownTriggers(fitIn[1]))
        => /\ fitOut[1].width <= fitIn[1].maxWidth
           /\ fitOut[1].height <= fitIn[1].maxHeight

\* a source exceeding only its height bound, scaled so that the width is
\* well below its bound
C1_Witness ==
    /\ FitApplied
    /\ fitIn[1].maintainAspectRatio
    /\ fitIn[1].width <= fitIn[1].maxWidth
    /\ fitIn[1].height > fitIn[1].maxHeight
    /\ fitOut[1].height = fitIn[1].maxHeight
    /\ fitOut[1].width < fitIn[1].width
    /\ fitOut[1].width >= 1

\* C2: the canvas is never larger than the source on either axis, with and
\* without maintainAspectRatio.
C2_NeverUpscales ==
    FitApplied => /\ fitOut[1].width <= fitIn[1].width
                  /\ fitOut[1].height <= fitIn[1].height

\* a source smaller than both bounds keeps its size
C2_Witness ==
    /\ FitApplied
    /\ fitIn[1].width < fitIn[1].maxWidth
    /\ fitIn[1].height < fitIn[1].maxHeight
    /\ fitOut[1] = [width |-> fitIn[1].width, height |-> fitIn[1].height]

\* C3: with maintainAspectRatio the canvas keeps the aspect ratio of the
\* source within rounding, |tw * h - th * w| <= (w + h) / 2, and
\* 4000x3000 within 1920x1920 becomes exactly 1920x1440.
C3_AspectPreserved ==
    (FitApplied /\ fitIn[1].maintainAspectRatio)
        => /\ 2 * Abs(fitOut[1].width * fitIn[1].height
                      - fitOut[1].height * fitIn[1].width)
                <= fitIn[1].width + fitIn[1].height
           /\ (/\ fitIn[1].width = 4000 /\ fitIn[1].height = 3000
               /\ fitIn[1].maxWidth = 1920 /\ fitIn[1].maxHeight = 1920)
                 => fitOut[1] = [width |-> 1920, height |-> 1440]

\* the 4000x3000 photo has been scaled
C3_Witness ==
    /\ FitApplied
    /\ fitIn[1].maintainAspectRatio
    /\ fitIn[1].width = 4000 /\ fitIn[1].height = 3000
    /\ fitOut[1].width = 1920

(***************************************************************************)
(* Properties of the quality search.                                        *)
(***************************************************************************)
Calls == DOMAIN calls

Depth(i) == Len(calls[i].stack)

\* the toBlob callback of the deepest level of call i runs in this step
\* and receives a blob
EncodeSucceeds(i) ==
    /\ AtStage(i, "encoding")
    /\ calls'[i] # calls[i]
    /\ calls'[i].stack[Depth(i)].blob > 0

OverTarget(size) == 10 * size > options.maxSizeTenthsMB * 1048576

\* C4: after a successful encode at quality q a recursive attempt at
\* q - 0.1 starts exactly when the size is over the target and q > 0.5;
\* otherwise the call resolves with this encode.
C4_RecurseIffOversizeAboveFloor ==
    [][\A i \in Calls :
         EncodeSucceeds(i) =>
           LET d    == Depth(i)
               q    == Top(i).quality
               size == calls'[i].stack[d].blob
               started == /\ Len(calls'[i].stack) = d + 1
                          /\ calls'[i].stack[d + 1].pc = "reading"
                          /\ calls'[i].stack[d + 1].quality = FSub(q, F0_1)
           IN  /\ started <=> (OverTarget(size) /\ FGt(q, F0_5))
               /\ ~started => /\ Len(calls'[i].stack) = d
                              /\ calls'[i].state = "resolved"
                              /\ calls'[i].value[1].size = size
                              /\ calls'[i].value[1].quality = q]_vars

\* an encode at quality <= 0.5 was returned although it is over the target,
\* after attempts at higher qualities
C4_Witness ==
    \E i \in Calls :
        /\ calls[i].state = "resolved"
        /\ Depth(i) >= 2
        /\ OverTarget(calls[i].value[1].size)
        /\ FLeq(calls[i].value[1].quality, F0_5)
        /\ calls[i].value[1].size = calls[i].stack[Depth(i)].blob

\* C5: along the recursion the quality falls by 0.1 per level, no level
\* runs at a quality <= 0.5 - 0.1, and a call that starts at 0.85 never
\* has more than 5 levels (encode attempts).
C5_RecursionBounded ==
    \A i \in Calls :
        /\ \A k \in 2..Depth(i) :
              /\ FGt(calls[i].stack[k - 1].quality, calls[i].stack[k].quality)
              /\ calls[i].stack[k].quality = FSub(calls[i].stack[k - 1].quality, F0_1)
              /\ FGt(calls[i].stack[k].quality, FSub(F0_5, F0_1))
        /\ options.quality = F0_85 => Depth(i) <= 5

\* the fifth attempt of a call that started at 0.85 has been encoded
C5_Witness ==
    \E i \in Calls :
        /\ options.quality = F0_85
        /\ Depth(i) = 5
        /\ calls[i].stack[5].blob > 0

\* C6: a call whose first encode succeeded never rejects; when a deeper
\* level rejects, the level above it resolves with its own encode.
C6_FallbackToCurrentEncode ==
    \A i \in Calls :
        (calls[i].state # "pending" /\ Depth(i) >= 2)
            => /\ calls[i].state = "resolved"
               /\ calls[i].stack[Depth(i)].blob = 0
                    => /\ calls[i].value[1].size = calls[i].stack[Depth(i) - 1].blob
                       /\ calls[i].value[1].quality = calls[i].stack[Depth(i) - 1].quality

\* the third level failed and the call resolved
C6_Witness ==
    \E i \in Calls :
        /\ calls[i].state = "resolved"
        /\ Depth(i) = 3
        /\ calls[i].stack[3].blob = 0

IsDefaultTarget == options.quality = F0_85 /\ options.maxSizeTenthsMB = 15

\* C7 as stated: a call with quality 0.85 and maxSizeMB 1.5 resolves with a
\* buffer within 1.5 MB, or with one encoded at a reduced quality <= 0.75.
C7_SizeOrReducedQuality ==
    \A i \in Calls :
        (IsDefaultTarget /\ calls[i].state = "resolved")
            => \/ ~OverTarget(calls[i].value[1].size)
               \/ /\ calls[i].value[1].quality # F0_85
                  /\ FLeq(calls[i].value[1].quality, F0_75)

\* C7 amended: ... or the attempt at the next lower quality rejected and
\* the buffer is the encode of the level above the one that rejected.
C7_SizeOrReducedQualityOrFallback ==
    \A i \in Calls :
        (IsDefaultTarget /\ calls[i].state = "resolved")
            => \/ ~OverTarget(calls[i].value[1].size)
               \/ /\ calls[i].value[1].quality # F0_85
                  /\ FLeq(calls[i].value[1].quality, F0_75)
               \/ /\ Depth(i) = 2
                  /\ calls[i].stack[2].blob = 0
                  /\ calls[i].value[1].quality = F0_85
                  /\ calls[i].value[1].size = calls[i].stack[1].blob

\* the target was not reached and the buffer was encoded at 0.45
C7_Witness ==
    \E i \in Calls :
        /\ IsDefaultTarget
        /\ calls[i].state = "resolved"
        /\ OverTarget(calls[i].value[1].size)
        /\ FGt(F0_5, calls[i].value[1].quality)

\* C8: the dimension calculation applied to its own output returns it
\* unchanged, and a first encode at or under the size target is returned
\* with no recursive attempt.
C8_Idempotent ==
    /\ Len(fitOut) = 2 => fitOut[2] = fitOut[1]
    /\ \A i \in Calls :
          (Depth(i) >= 1 /\ calls[i].stack[1].blob > 0
             /\ ~OverTarget(calls[i].stack[1].blob))
              => /\ Depth(i) = 1
                 /\ calls[i].state = "resolved"
                 /\ calls[i].value[1].size = calls[i].stack[1].blob
                 /\ calls[i].value[1].width = calls[i].stack[1].width
                 /\ calls[i].value[1].height = calls[i].stack[1].height

\* a scaled-down size was recalculated
C8_Witness ==
    /\ Len(fitOut) = 2
    /\ fitIn[1].maintainAspectRatio
    /\ ScaleDownTriggers(fitIn[1])
    /\ fitOut[1].width < fitIn[1].width
    /\ fitOut[2] = fitOut[1]

(***************************************************************************)
(* Properties of batchCompressImages.                                       *)
(***************************************************************************)
IsRejected(i) == calls[i].state = "rejected"

\* the position in settleOrder of the first call that rejected
FirstRejection ==
    CHOOSE k \in 1..Len(settleOrder) :
        /\ IsRejected(settleOrder[k])
        /\ \A j \in 1..(k - 1) : ~IsRejected(settleOrder[j])

\* C9: the batch resolves only when every call resolved, with the results
\* of the calls in input order; when a call rejects the batch rejects with
\* the prefix 'Batch compression failed: ' and without results.
C9_AllOrNothing ==
    /\ batch.state = "resolved"
         => /\ \A i \in Calls : calls[i].state = "resolved"
            /\ Len(batch.results) = Len(files)
            /\ \A i \in Calls : batch.results[i] = calls[i].value[1]
    /\ (\E i \in Calls : IsRejected(i))
         => /\ batch.state = "rejected"
            /\ batch.error[1] = "Batch compression failed: "
            /\ batch.results = <<>>
    /\ batch.state = "rejected" => \E i \in Calls : IsRejected(i)

\* two files were compressed to different results, the second one
\* finishing first
C9_Witness ==
    /\ batch.state = "resolved"
    /\ Len(files) = 2
    /\ settleOrder = <<2, 1>>
    /\ batch.results[1] # batch.results[2]

\* C10: every call is started before the batch waits, and as soon as a
\* call has rejected the batch is rejected with the error of the call that
\* rejected first in time, whatever the other calls are doing.
C10_RejectsOnFirstFailure ==
    /\ batch.state # "idle"
         => /\ Calls = 1..Len(files)
            /\ \A i \in Calls : calls[i].state = "pending" => Depth(i) >= 1
    /\ (\E i \in Calls : IsRejected(i))
         => /\ batch.state = "rejected"
            /\ batch.error = <<"Batch compression failed: ">>
                              \o calls[settleOrder[FirstRejection]].error

\* the second file failed first while the first one was still being
\* processed, and the first one failed later with another error
C10_Witness ==
    /\ Len(files) = 2
    /\ settleOrder = <<2, 1>>
    /\ IsRejected(1) /\ IsRejected(2)
    /\ calls[1].error # calls[2].error
    /\ batch.error = <<"Batch compression failed: ">> \o calls[2].error

(***************************************************************************)
(* validateImage.                                                           *)
(***************************************************************************)
ValidationResult == validation.result[1]

NoDecodeStarted == info.state = "idle" /\ info.reads = 0 /\ info.decodes = 0

TooLarge(file, opts) == file.width > opts.maxWidth \/ file.height > opts.maxHeight

\* C11: validateImage checks presence, the 'image/' prefix, the allow-list,
\* the size and the decoded dimensions in this order and returns the error
\* of the first failing check; after a failing check no later one is made
\* (no read and no decode is started); a file passing all of them is valid.
C11_FirstFailingCheck ==
    LET f == validation.file
        o == validation.options
    IN  /\ validation.state = "awaitingInfo"
            => /\ f.present /\ f.type[1] = "image"
               /\ f.type \in o.allowedTypes /\ f.size <= o.maxSize
        /\ validation.state = "resolved" =>
             IF ~f.present
             THEN /\ ValidationResult = Invalid(<<"No file provided">>)
                  /\ NoDecodeStarted
             ELSE IF f.type[1] # "image"
             THEN /\ ValidationResult = Invalid(<<"File is not an image">>)
                  /\ NoDecodeStarted
             ELSE IF f.type \notin o.allowedTypes
             THEN /\ ValidationResult =
                        Invalid(<<"File type ", f.type[1], "/", f.type[2],
                                  " not allowed">>)
                  /\ NoDecodeStarted
             ELSE IF f.size > o.maxSize
             THEN /\ ValidationResult =
                        Invalid(<<"File size exceeds ",
                                  ToString(o.maxSize \div MB), "MB limit">>)
                  /\ NoDecodeStarted
             ELSE IF info.state = "resolved" /\ TooLarge(f, o)
             THEN ValidationResult =
                     Invalid(<<"Image dimensions exceed ",
                               ToString(o.maxWidth), "x",
                               ToString(o.maxHeight), "px limit">>)
             ELSE info.state = "resolved" => ValidationResult = Valid

\* a GIF over the size limit and over the dimension limit is refused for
\* its type, and nothing was read
C11_Witness ==
    /\ validation.state = "resolved"
    /\ validation.file.type = <<"image", "gif">>
    /\ validation.file.size > validation.options.maxSize
    /\ TooLarge(validation.file, validation.options)
    /\ ValidationResult.error = <<"File type ", "image", "/", "gif", " not allowed">>
    /\ NoDecodeStarted

\* C12: validateImage never rejects; when the read or the decode of the
\* dimension check fails it resolves with 'Failed to read image dimensions'.
C12_NeverRejects ==
    /\ validation.state # "rejected"
    /\ (validation.state = "resolved" /\ info.state = "rejected")
          => ValidationResult = Invalid(<<"Failed to read image dimensions">>)

\* the decode of a file that passed the four synchronous checks failed
C12_Witness ==
    /\ validation.state = "resolved"
    /\ info.state = "rejected"
    /\ info.error = <<"Failed to load image">>
    /\ ValidationResult = Invalid(<<"Failed to read image dimensions">>)

(***************************************************************************)
(* resizeImage.                                                             *)
(***************************************************************************)
\* drawImage has been called
Drawn(fit) ==
    /\ resize.fit = fit
    /\ \E j \in DOMAIN resize.ops : resize.ops[j].op = "drawImage"

DrawOp == resize.ops[CHOOSE j \in DOMAIN resize.ops : resize.ops[j].op = "drawImage"]

\* rectangle r = <<x, y, width, height>> lies inside a width x height area
Inside(r, width, height) ==
    /\ r[1] >= 0 /\ r[2] >= 0 /\ r[3] >= 0 /\ r[4] >= 0
    /\ r[1] + r[3] <= width
    /\ r[2] + r[4] <= height

\* the margins left and right, and above and below, differ by at most 1
Centered(r, width, height) ==
    /\ Abs(r[1] - (width - r[3] - r[1])) <= 1
    /\ Abs(r[2] - (height - r[4] - r[2])) <= 1

C14_CropCenteredInside ==
    Drawn("cover")
        => /\ Inside(DrawOp.src, resize.file.width, resize.file.height)
           /\ Centered(DrawOp.src, resize.file.width, resize.file.height)
           /\ (/\ resize.file.width = 1600 /\ resize.file.height = 900
               /\ resize.targetWidth = 512 /\ resize.targetHeight = 512)
                 => DrawOp.src = <<350, 0, 900, 900>>

C14_Witness ==
    /\ Drawn("cover")
    /\ resize.file.width = 1600 /\ resize.file.height = 900
    /\ resize.targetWidth = 512 /\ resize.targetHeight = 512
    /\ DrawOp.src = <<350, 0, 900, 900>>

\* C15: with fit 'contain' the canvas is filled black before the draw, the
\* whole source is drawn into a destination rectangle that lies inside the
\* canvas, touches it on at least one axis and is centered within one
\* pixel.
C15_ContainLetterbox ==
    Drawn("contain")
        => /\ Len(resize.ops) = 2
           /\ resize.ops[1] = FillRect(resize.targetWidth, resize.targetHeight)
           /\ resize.ops[2].op = "drawImage"
           /\ DrawOp.src = <<0, 0, resize.file.width, resize.file.height>>
           /\ Inside(DrawOp.dst, resize.targetWidth, resize.targetHeight)
           /\ \/ DrawOp.dst[3] = resize.targetWidth
              \/ DrawOp.dst[4] = resize.targetHeight
           /\ Centered(DrawOp.dst, resize.targetWidth, resize.targetHeight)

\* 4000x3000 letterboxed in 1920x1920: bars of 240 px above and below
C15_Witness ==
    /\ Drawn("contain")
    /\ resize.file.width = 4000 /\ resize.file.height = 3000
    /\ resize.targetWidth = 1920 /\ resize.targetHeight = 1920
    /\ resize.ops[1].op = "fillRect"
    /\ DrawOp.dst = <<0, 240, 1920, 1440>>

(***************************************************************************)
(* Input validation of the image functions.                                 *)
(***************************************************************************)
NotAnImage(file) == ~file.present \/ file.type[1] # "image"

\* C16: compressImage, resizeImage and getImageInfo reject a missing file
\* and a file whose type does not begin with 'image/' before anything is
\* read, decoded, drawn or encoded.
C16_RejectsNonImageFirst ==
    /\ \A i \in DOMAIN calls :
          NotAnImage(files[i])
              => /\ calls[i].state = "rejected"
                 /\ calls[i].stack = <<>>
    /\ (resize.state # "idle" /\ NotAnImage(resize.file))
          => /\ resize.state = "rejected"
             /\ resize.reads = 0 /\ resize.decodes = 0
             /\ resize.canvas = <<>> /\ resize.ops = <<>>
    /\ (info.state # "idle" /\ NotAnImage(info.file))
          => /\ info.state = "rejected"
             /\ info.reads = 0 /\ info.decodes = 0

\* resizeImage of a text file
C16_Witness ==
    /\ resize.state = "rejected"
    /\ resize.file.type = <<"text", "plain">>
    /\ resize.error = <<"File is not an image">>
    /\ resize.reads = 0

(***************************************************************************)
(* The upload functions.                                                    *)
(***************************************************************************)
ValidatedValid ==
    validation.state = "resolved" /\ validation.result[1].valid

\* C17: uploadMomentImage and uploadProfileImage validate, compress and
\* upload in this order: compressImage is called only after the validation
\* returned valid, the storage upload is issued only after the compression
\* resolved, and after an invalid validation or a rejected compression no
\* upload is issued and the call rejects.
C17_ValidateCompressUpload ==
    upload.state # "idle" =>
        /\ upload.state = "validating" => (calls = <<>> /\ upload.requests = 0)
        /\ calls # <<>> => ValidatedValid
        /\ upload.state = "compressing"
              => (calls[1].state = "pending" /\ upload.requests = 0)
        /\ upload.requests > 0
              => /\ upload.requests = 1
                 /\ ValidatedValid
                 /\ calls # <<>> /\ calls[1].state = "resolved"
                 /\ upload.body = calls[1].value
        /\ (validation.state = "resolved" /\ ~validation.result[1].valid)
              => /\ upload.state = "rejected"
                 /\ upload.requests = 0
                 /\ calls = <<>>
        /\ (calls # <<>> /\ calls[1].state = "rejected")
              => /\ upload.state = "rejected"
                 /\ upload.requests = 0

\* the compression of a valid profile image rejected at the encode step
C17_Witness ==
    /\ upload.state = "rejected"
    /\ upload.kind = "profile"
    /\ ValidatedValid
    /\ calls # <<>> /\ calls[1].state = "rejected"
    /\ upload.error = <<"Profile image upload error: ",
                        "Failed to create blob from canvas">>
    /\ upload.requests = 0

(***************************************************************************)
(* The File returned by compressImage.                                      *)
(***************************************************************************)
ImpliesJpeg(type) == type = <<"image", "jpeg">>

\* C18: the file returned by compressImage has the requested mimeType as
\* its type, and its name is the original name with the extension replaced
\* by '.jpg' when that mime type is JPEG, and the original name otherwise.
C18_NameFollowsMime ==
    \A i \in DOMAIN calls :
        calls[i].state = "resolved"
            => /\ calls[i].value[1].type = options.mimeType
               /\ calls[i].value[1].name =
                     IF ImpliesJpeg(options.mimeType)
                     THEN [files[i].name EXCEPT !.ext = "jpg"]
                     ELSE files[i].name

(***************************************************************************)
(* The entity modules.                                                      *)
(***************************************************************************)
IsLikeCreate(c) == c.entity = "like" /\ c.op = "create"

Liked(tables, c) == LikesOf(tables, c.args[1], c.args[2]) # {}

\* C19: made without concurrent calls, a Like.create that returns has
\* inserted exactly one row for the pair when there was none and has
\* removed the pair's like when there was one, so that two calls in a row
\* for the same pair leave the pair liked exactly when it was before.
C19_Toggle ==
    \A i \in DOMAIN db.calls :
        LET c == db.calls[i]
        IN  (IsLikeCreate(c) /\ c.state = "resolved")
              => /\ IF Liked(c.before, c)
                    THEN ~Liked(c.after, c)
                    ELSE Cardinality(LikesOf(c.after, c.args[1], c.args[2])) = 1
                 /\ \A j \in DOMAIN db.calls :
                       (/\ j = i + 1
                        /\ IsLikeCreate(db.calls[j])
                        /\ db.calls[j].args = c.args
                        /\ db.calls[j].state = "resolved")
                          => (Liked(db.calls[j].after, c) <=> Liked(c.before, c))

IsDeleteById(c, entity) ==
    c.entity = entity /\ c.op = "deleteById" /\ c.state = "resolved"

HardDeleted == {"like", "comment", "follow", "circle", "circleWhitelist"}

TableOf(tables, entity) ==
    CASE entity = "like" -> tables.likes
      [] entity = "comment" -> tables.comments
      [] entity = "follow" -> tables.follows
      [] entity = "circle" -> tables.circles
      [] entity = "circleWhitelist" -> tables.circle_whitelist
      [] entity = "moment" -> tables.moments

\* row r is the one deleteById(args) is about
MatchesKey(entity, r, args) ==
    CASE entity = "follow" ->
           r.follower_id = args[1] /\ r.following_id = args[2]
      [] entity = "circleWhitelist" ->
           r.circle_id = args[1] /\ r.user_id = args[2]
      [] OTHER -> r.id = args[1]

MomentIds(tables) == {r.id : r \in tables.moments}

\* C20: Moment.deleteById sets is_deleted and deleted_at on the row with
\* the given id and no row ever leaves the moments table; deleteById of
\* Like, Comment, Follow, Circle and CircleWhitelist removes the matching
\* rows (and only them).
C20_SoftAndHardDelete ==
    /\ MomentIds(db.tables) = MomentIds(InitialTables)
    /\ \A i \in DOMAIN db.calls :
          LET c == db.calls[i]
          IN  /\ IsDeleteById(c, "moment")
                    => /\ \E r \in c.after.moments :
                             /\ r.id = c.args[1]
                             /\ r.is_deleted
                             /\ r.deleted_at = c.now
                       /\ {r \in c.after.moments : r.id # c.args[1]}
                            = {r \in c.before.moments : r.id # c.args[1]}
              /\ \A e \in HardDeleted :
                    IsDeleteById(c, e)
                        => TableOf(c.after, e)
                             = {r \in TableOf(c.before, e) :
                                   ~MatchesKey(e, r, c.args)}

\* moment-1 was soft-deleted and is still there, and the like with id 1
\* was deleted and is gone
C20_Witness ==
    /\ \E i \in DOMAIN db.calls :
          /\ IsDeleteById(db.calls[i], "moment")
          /\ db.calls[i].args = <<"moment-1">>
    /\ \E r \in db.tables.moments : r.id = "moment-1" /\ r.is_deleted
    /\ \E i \in DOMAIN db.calls :
          /\ IsDeleteById(db.calls[i], "like")
          /\ \E r \in db.calls[i].before.likes : r.id = 1
    /\ ~\E r \in db.tables.likes : r.id = 1

FailedToContexts ==
    {"Failed to like: ", "Failed to delete like: ",
     "Failed to delete comment: ", "Failed to delete follow: ",
     "Failed to delete circle: ", "Failed to delete whitelist entry: ",
     "Failed to delete moment: "}

\* C21: an entity-module call that received an error from one of its
\* queries throws 'Failed to <context>: <platform message>', and a call
\* returns data only when none of its queries returned an error.
C21_QueryErrorsThrow ==
    \A i \in DOMAIN db.calls :
        LET c == db.calls[i]
        IN  /\ (c.state # "pending" /\ c.lookupFailed) => c.state = "rejected"
            /\ c.state = "rejected"
                  => /\ Len(c.error) = 2
                     /\ c.error[1] \in FailedToContexts
                     /\ c.error[2] = "platform error"

\* the levels of call i whose encode produced a blob
Encoded(i) == {k \in 1..Depth(i) : calls[i].stack[k].blob > 0}

Deepest(levels) == CHOOSE k \in levels : \A j \in levels : j <= k

\* C22: a resolved compressImage returns the encode of the deepest level
\* whose encode succeeded; every level above it recursed because its own
\* encode was over budget at a quality above 0.5, and a level that failed
\* below it took nothing away.
C22_LastSuccessfulEncode ==
    \A i \in Calls :
        calls[i].state = "resolved"
            => /\ Encoded(i) # {}
               /\ calls[i].value[1]
                     = CompressedFile(files[i], options,
                                      calls[i].stack[Deepest(Encoded(i))])
               /\ \A k \in 1..(Depth(i) - 1) :
                     /\ k \in Encoded(i)
                     /\ ShouldRecompress(calls[i].stack[k].blob,
                                         calls[i].stack[k].quality, options)
               /\ Deepest(Encoded(i)) >= Depth(i) - 1

\* two reductions were made, the third level's encode succeeded and is
\* the one returned
C22_Witness ==
    \E i \in Calls :
        /\ calls[i].state = "resolved"
        /\ Depth(i) = 3
        /\ Encoded(i) = {1, 2, 3}
        /\ calls[i].value[1].quality = calls[i].stack[3].quality
        /\ calls[i].value[1].size < calls[i].stack[2].blob

\* the moves of one level of a compressImage call: read, then decode, then
\* draw and the start of the encode, then the wait for a recursive call
StageMoves ==
    {<<"reading", "decoding">>, <<"decoding", "encoding">>,
     <<"encoding", "awaiting">>}
    \cup {<<pc, "settled">> : pc \in {"reading", "decoding", "encoding", "awaiting"}}

CompressInOrder(i) ==
    /\ calls[i].state # "pending" => calls'[i] = calls[i]
    /\ Len(calls'[i].stack) >= Depth(i)
    /\ \A k \in 1..Depth(i) :
          LET old == calls[i].stack[k]
              new == calls'[i].stack[k]
          IN  /\ new.pc = old.pc \/ <<old.pc, new.pc>> \in StageMoves
              /\ new.blob # old.blob => old.pc = "encoding"
              /\ (new.pc = "encoding" /\ old.pc # "encoding")
                    => /\ new.width = FitOf(files[i], options).width
                       /\ new.height = FitOf(files[i], options).height
    /\ \A k \in (Depth(i) + 1)..Len(calls'[i].stack) :
          /\ calls'[i].stack[k].pc = "reading"
          /\ calls'[i].stack[k].blob = 0

ResizeSettled == resize.state \in {"resolved", "rejected"}

ResizeInOrder ==
    /\ ResizeSettled => resize' = resize
    /\ resize'.state # resize.state
          => <<resize.state, resize'.state>>
                \in {<<"idle", "reading">>, <<"idle", "rejected">>,
                     <<"reading", "decoding">>, <<"reading", "rejected">>,
                     <<"decoding", "encoding">>, <<"decoding", "rejected">>,
                     <<"encoding", "resolved">>, <<"encoding", "rejected">>}
    /\ resize'.state = "decoding" => resize'.reads = 1 /\ resize'.ops = <<>>
    /\ resize'.ops # <<>> => resize'.decodes = 1 /\ resize'.canvas # <<>>
    /\ resize'.state \in {"encoding", "resolved"}
          => resize'.ops
                = CanvasOps(resize.fit,
                            ResizeGeometry(resize.fit, resize.file.width,
                                           resize.file.height,
                                           resize.targetWidth,
                                           resize.targetHeight),
                            resize.targetWidth, resize.targetHeight)

\* C23: in a compressImage or resizeImage call a stage starts only after
\* the one before it completed (read, decode, draw, encode), a settled
\* call never changes again, and when the started stages keep reporting
\* every pending call settles.
C23_StagesInOrderAndSettle ==
    /\ [][/\ \A i \in Calls : i \in DOMAIN calls' /\ CompressInOrder(i)
          /\ ResizeInOrder]_vars
    /\ (1 \in Calls /\ calls[1].state = "pending")
          ~> (1 \in Calls /\ calls[1].state # "pending")
    /\ (resize.state \in {"reading", "decoding", "encoding"}) ~> ResizeSettled

\* a call that went through read, decode, draw and two encodes, the
\* second one started by the recursion, and resolved
C23_Witness ==
    \E i \in Calls :
        /\ calls[i].state = "resolved"
        /\ Depth(i) = 2
        /\ \A k \in 1..2 : /\ calls[i].stack[k].pc = "settled"
                           /\ calls[i].stack[k].width >= 1
                           /\ calls[i].stack[k].blob > 0

\* the prefix each operation puts before the message of an exception it
\* caught in its canvas block
CaughtPrefix(operation) ==
    IF operation = "compressImage"
    THEN "Canvas processing failed: "
    ELSE "Resize failed: "

\* the rejections of the state that came from a handler after the input
\* checks: the operation, the handler that rejected and the message
HandlerRejections ==
    {[operation |-> "compressImage", failed |-> calls[i].stack[1].failed,
      error |-> calls[i].error] :
        i \in {j \in Calls : /\ calls[j].state = "rejected"
                             /\ calls[j].stack # <<>>}}
    \cup {[operation |-> "resizeImage", failed |-> resize.failed,
           error |-> resize.error] :
            x \in {y \in {1} : resize.state = "rejected" /\ resize.failed # ""}}

StageRejections ==
    {r \in HandlerRejections :
        r.failed \in {"decode", "context", "canvas", "encode"}}

\* what a caller reads from the message
CauseOf(error, operation) ==
    CASE error = <<"Failed to read file">> -> "read"
      [] error = <<"Failed to load image">> -> "decode"
      [] error = <<"Failed to get canvas context">> -> "context"
      [] error = <<"Failed to create blob from canvas">> -> "encode"
      [] Len(error) = 2 /\ error[1] = CaughtPrefix(operation) -> "canvas"
      [] OTHER -> ""

\* C24 as stated: every rejection caused by a decode, render or encode
\* failure carries a message prefixed by the operation's context, and the
\* message tells which stage failed.
C24_StageMessagesPrefixed ==
    \A r \in StageRejections :
        /\ Len(r.error) = 2
        /\ r.error[1] = CaughtPrefix(r.operation)
        /\ CauseOf(r.error, r.operation) = r.failed

\* C24, amended: the message tells which stage failed, and it is prefixed
\* exactly when the failure was an exception caught in the canvas block;
\* decode, missing context and null blob have fixed messages.
C24_StageMessagesDistinct ==
    \A r \in StageRejections :
        /\ CauseOf(r.error, r.operation) = r.failed
        /\ (Len(r.error) = 2 /\ r.error[1] = CaughtPrefix(r.operation))
              <=> r.failed = "canvas"

\* a compression rejected by the null blob of its first encode
C24_Witness ==
    \E i \in Calls :
        /\ calls[i].state = "rejected"
        /\ Depth(i) = 1
        /\ calls[i].stack[1].failed = "encode"
        /\ calls[i].error = <<"Failed to create blob from canvas">>

\* C25: the canvas of every level of the recursion, and so the dimensions
\* of the returned buffer, are those computed from the source dimensions,
\* maxWidth, maxHeight and maintainAspectRatio alone, however many quality
\* reductions were made.
C25_DimensionsIndependentOfQuality ==
    \A i \in Calls :
        LET fit == FitDimensions(files[i].width, files[i].height,
                                 options.maxWidth, options.maxHeight,
                                 options.maintainAspectRatio)
        IN  /\ \A k \in 1..Depth(i) :
                  calls[i].stack[k].pc \in {"encoding", "awaiting"}
                      => /\ calls[i].stack[k].width = fit.width
                         /\ calls[i].stack[k].height = fit.height
            /\ calls[i].state = "resolved"
                  => /\ calls[i].value[1].width = fit.width
                     /\ calls[i].value[1].height = fit.height

\* a source larger than the bounds was scaled down and returned after
\* three quality reductions
C25_Witness ==
    \E i \in Calls :
        /\ calls[i].state = "resolved"
        /\ Depth(i) = 4
        /\ calls[i].value[1].quality = calls[i].stack[4].quality
        /\ calls[i].value[1].width < files[i].width
        /\ calls[i].value[1].width = calls[i].stack[1].width

\* C30: for a source of at least 1 x 1 and bounds of at least 1 x 1 the
\* computed canvas is at least 1 pixel wide and 1 pixel high.
C30_CanvasAtLeastOnePixel ==
    (/\ FitApplied
     /\ fitIn[1].width >= 1 /\ fitIn[1].height >= 1
     /\ fitIn[1].maxWidth >= 1 /\ fitIn[1].maxHeight >= 1)
        => fitOut[1].width >= 1 /\ fitOut[1].height >= 1

\* the Like.create calls on a pair that returned
ResolvedCreates(pair) ==
    {i \in DOMAIN db.calls : /\ IsLikeCreate(db.calls[i])
                             /\ db.calls[i].args = pair
                             /\ db.calls[i].state = "resolved"}

\* C27: however the queries of overlapping Like.create calls on a pair
\* interleave (every lookup being answered without an error), the table
\* never holds two rows for the pair, and once the calls have settled the
\* pair is liked as after the returned calls run one after the other:
\* each of them toggles.
C27_ConcurrentCreatesSerializable ==
    (\A i \in DOMAIN db.calls : ~db.calls[i].lookupFailed)
        => \A pair \in LikePairs :
              /\ Cardinality(LikesOf(db.tables, pair[1], pair[2])) <= 1
              /\ (\A i \in DOMAIN db.calls : db.calls[i].state # "pending")
                    => ((LikesOf(db.tables, pair[1], pair[2]) # {})
                          <=> ((LikesOf(InitialTables, pair[1], pair[2]) # {})
                                 <=> Cardinality(ResolvedCreates(pair)) % 2 = 0))

(***************************************************************************)
(* Authentication.                                                          *)
(***************************************************************************)
SignupSettled == signup.state \in {"resolved", "rejected"}

LatestEventShown ==
    (authContext.getUser = "done" /\ authContext.events # <<>>)
        => authContext.user = authContext.events[Len(authContext.events)]

\* C28: once the initial getUser result and the delivered events have
\* been processed, in whatever order, the context's user is the user of
\* the most recent event; and loading never goes back to true.
C28_LatestEventWins ==
    /\ []LatestEventShown
    /\ [][~authContext.loading => ~authContext'.loading]_vars

\* C29: a path written by an upload function is routed by a later
\* getSignedUrl or deleteFile to the bucket the upload wrote to.
C29_RoutedToUploadBucket ==
    storage.state = "routed" => storage.routed = storage.bucket
====
